---- MODULE Spec2Model ----
(***************************************************************************)
(* A model of the Perl code-generation extension: the request coordinator  *)
(* (fetchCodeWithDeduplication), the background error check                 *)
(* (updateErrorDiagnostics), the codebase indexer (PerlCodebaseIndexer,     *)
(* PerlCodeStructureIndex, PerlVectorIndex), the structure extractor       *)
(* (getCodeStructures), the enclosing block lookup (getCurrentBlock), the  *)
(* context assembly (generateContextForComments, getCodeAround), the       *)
(* import definitions (PerlImportDefAnalyzer) and the store connection.    *)
(*                                                                         *)
(* JavaScript runs one task at a time; an async function runs without      *)
(* interruption up to an await on real I/O.  Every action below is one     *)
(* such uninterrupted stretch: an event handler up to its first I/O await, *)
(* or the continuation that runs when an I/O operation completes.          *)
(***************************************************************************)
EXTENDS Integers, Sequences, FiniteSets, TLC

VARIABLES
    \* ---- request coordinator (src/extension.js) ----
    inFlightRequests,   \* the Map requestKey -> promise (a function on the keys present)
    promises,           \* every requestPromise ever created: [key, stage, result]
    calls,              \* every call of fetchCodeWithDeduplication: [key, promise, text]
    documents,          \* the open documents: a function from fileName to getText()
    \* ---- error check (src/extension.js) ----
    errorCheckAbortController,  \* index in controllers of the current AbortController
    controllers,        \* every AbortController ever created: TRUE when aborted
    checks,             \* every started error check: [doc, signal, stage]
    errorDiagnostics,   \* the diagnostic collection: a function on the documents that
                        \* have an entry, to the check whose diagnostics are shown
    \* ---- codebase indexer (src/unnamed/part_005, src/indexers) ----
    structures,         \* PerlCodeStructureIndex.structures: a function on the paths present
    table,              \* the LanceDB table: sequence of rows in insertion order
    clock,              \* the latest value Date.now() returned
    tasks,              \* the indexFile / refreshFile / deleteFromIndex calls in progress
    workspace,          \* the indexWorkspace run: its position, its locals, and (observer)
                        \* readOk: the paths whose read succeeded, started: the paths
                        \* passed to indexFile, in call order
    cancelRequested,    \* token.isCancellationRequested of the progress dialog
    events,             \* number of file watcher notifications handled so far
    snapshots,          \* index state seen at the end of each refreshFile (observer)
    \* ---- semantic search (src/indexers/vectorIndex.js) ----
    searches,           \* every findSimilarCode call: [text, limit, pc, failed, outcome, result]
    \* ---- parser (src/unnamed/part_001) and structure extractor ----
    perlParser,         \* treeSitter.js: the parser, or NoParser
    initialized,        \* treeSitter.js: whether initTreeSitter has succeeded
    parser,             \* codeStructureIndex.js: the value getParser() returned at load
    activated,          \* extension.js: activate has called initTreeSitter
    extraction,         \* the observed getCodeStructures call and what it returned (observer)
    blockQuery,         \* the observed getCurrentBlock call and what it returned (observer)
    \* ---- context assembly (src/extension.js), store connection, collectors ----
    context,            \* the observed generateContextForComments call and its request
    connection,         \* PerlVectorIndex: db, table and the _initDb calls in progress
    probe,              \* the observed call of a collector function (observer)
    \* ---- debounce (src/indexers/codeStructureIndex.js, src/unnamed/part_002) ----
    debounced,          \* a debounced function: its timer, the time, the promises it
                        \* returned and (observer) the invocations of the wrapped function
    \* ---- commands (src/unnamed/part_004) and sidebar (src/extension.js) ----
    codebaseIndexer,    \* extension.js: the global codebaseIndexer, or "null"
    command,            \* the perlcodegeneration.indexCodebase invocation in progress and
                        \* (observer) what each finished invocation did and showed
    sidebar             \* lastSelectedText, lastSuggestions, treeProvider.suggestions and
                        \* the /altCode/ requests of processSelectionForSidebar

reqVars   == <<inFlightRequests, promises, calls, documents>>
checkVars == <<errorCheckAbortController, controllers, checks, errorDiagnostics>>
indexVars == <<structures, table, clock, tasks, workspace, cancelRequested, events,
               snapshots>>
searchVars == <<searches>>
parserVars == <<perlParser, initialized, parser, activated, extraction, blockQuery>>
uiVars    == <<debounced, codebaseIndexer, command, sidebar>>
lateVars  == <<context, connection, probe, uiVars>>
vars      == <<reqVars, checkVars, indexVars, searchVars, parserVars, lateVars>>

(***************************************************************************)
(* Bounds of the model.                                                    *)
(***************************************************************************)
MaxRequests == 3    \* request promises created
MaxCalls    == 3    \* calls of fetchCodeWithDeduplication
MaxChecks   == 3    \* error checks started
MaxEvents   == 2    \* file watcher notifications handled
MaxSearches == 2    \* findSimilarCode calls
MaxStatements == 3  \* statements at the top level of a program
MaxLen      == 4    \* lexemes in a raw text
MaxBlockStatements == 2  \* statements at the top level of a document of getCurrentBlock
MaxLines    == 3    \* lines of a document given to getCodeAround
MaxLineLen  == 2    \* characters of a line of such a document
MaxAround   == 2    \* lines asked for before and after the cursor
MaxModuleLines == 3 \* lines of an imported file
MaxImports  == 2    \* use / require statements of a document
MaxGlob     == 2    \* files the recursive search of findFileByPath returns
MaxOperations == 2  \* store operations called before the table is open
MaxBurst    == 3    \* calls of the debounced function
MaxTime     == 4    \* clock ticks in which the debounced function is observed
MaxCommands == 4    \* invocations of the Index Perl Codebase command
MaxSelections == 3  \* selection changes given to processSelectionForSidebar

\* Small helpers.
Range(s) == {s[i] : i \in 1..Len(s)}

RECURSIVE SelectSeqBy(_, _)
\* Array.prototype.filter with a predicate given as the set of kept elements' indexes
SelectSeqBy(s, keep) ==
    IF s = <<>> THEN <<>>
    ELSE (IF Len(s) \in keep THEN SelectSeqBy(SubSeq(s, 1, Len(s) - 1), keep) \o <<s[Len(s)]>>
          ELSE SelectSeqBy(SubSeq(s, 1, Len(s) - 1), keep))

(***************************************************************************)
(* REQUEST COORDINATOR                                                     *)
(***************************************************************************)
\* Inputs of a completion request.  A comment is a sequence of characters.
ReqDocs      == {"a.pl"}
ReqPositions == {[line |-> 1, character |-> 0], [line |-> 2, character |-> 0]}
Comments     == {<<"s">>, <<" ", "s">>, <<"t">>}
Codes        == {"code"}
\* What doc.getText() can return: the document before and after an edit.
DocTexts     == {<<"my $x;">>, <<"my $x;", "my $y;">>}

RECURSIVE TrimStart(_)
TrimStart(s) == IF s # <<>> /\ Head(s) = " " THEN TrimStart(Tail(s)) ELSE s

RECURSIVE TrimEnd(_)
TrimEnd(s) == IF s # <<>> /\ s[Len(s)] = " " THEN TrimEnd(SubSeq(s, 1, Len(s) - 1)) ELSE s

\* String.prototype.trim
Trim(s) == TrimEnd(TrimStart(s))

\* `${doc.fileName}:${pos.line}:${pos.character}:${comment.trim()}`
createRequestKey(comment, doc, pos) ==
    <<doc, ":", pos.line, ":", pos.character, ":">> \o Trim(comment)

Settled(p) == promises[p].stage = "settled"

\* fetchCodeWithDeduplication without the has() test: every call starts a request
fetchCodeNoDedup(comment, doc, pos) ==
    LET requestKey == createRequestKey(comment, doc, pos)
        p == Len(promises) + 1
    IN  /\ Len(calls) < MaxCalls
        /\ Len(promises) < MaxRequests
        /\ promises' = Append(promises,
                              [key |-> requestKey, stage |-> "context", result |-> "pending",
                        text |-> documents[doc]])
        /\ inFlightRequests' =
               [k \in DOMAIN inFlightRequests \cup {requestKey} |->
                    IF k = requestKey THEN p ELSE inFlightRequests[k]]
        /\ calls' = Append(calls, [key |-> requestKey, promise |-> p,
                                           text |-> documents[doc]])
        /\ UNCHANGED <<documents, checkVars, indexVars, searchVars, parserVars, lateVars>>

\* fetchCodeWithDeduplication: the synchronous part of a call.  The async IIFE runs
\* up to `await generateContextForComments(...)`, the promise is stored in the map
\* and returned.
fetchCodeWithDeduplication(comment, doc, pos) ==
    LET requestKey == createRequestKey(comment, doc, pos)
        p == Len(promises) + 1
    IN  /\ Len(calls) < MaxCalls
        /\ IF requestKey \in DOMAIN inFlightRequests
           THEN \* return inFlightRequests.get(requestKey)
                /\ calls' = Append(calls, [key |-> requestKey,
                                           promise |-> inFlightRequests[requestKey],
                                           text |-> documents[doc]])
                /\ UNCHANGED <<inFlightRequests, promises>>
           ELSE /\ Len(promises) < MaxRequests
                /\ promises' = Append(promises,
                       [key |-> requestKey, stage |-> "context", result |-> "pending",
                        text |-> documents[doc]])
                /\ inFlightRequests' =
                       [k \in DOMAIN inFlightRequests \cup {requestKey} |->
                            IF k = requestKey THEN p ELSE inFlightRequests[k]]
                /\ calls' = Append(calls, [key |-> requestKey, promise |-> p,
                                           text |-> documents[doc]])
        /\ UNCHANGED <<documents, checkVars, indexVars, searchVars, parserVars, lateVars>>

\* The request settles with `result`, but the map entry is removed only on success
SettleKeepOnFailure(p, result) ==
    /\ promises' = [promises EXCEPT ![p].stage = "settled", ![p].result = result]
    /\ inFlightRequests' =
           IF result = "null" THEN inFlightRequests
           ELSE [k \in DOMAIN inFlightRequests \ {promises[p].key} |-> inFlightRequests[k]]

\* return / catch, then `finally { inFlightRequests.delete(requestKey) }`
Settle(p, result) ==
    /\ promises' = [promises EXCEPT ![p].stage = "settled", ![p].result = result]
    /\ inFlightRequests' =
           [k \in DOMAIN inFlightRequests \ {promises[p].key} |-> inFlightRequests[k]]

\* generateContextForComments resolves: api.post('/commentCode/') is sent
ContextDone(p) ==
    /\ p \in 1..Len(promises)
    /\ promises[p].stage = "context"
    /\ promises' = [promises EXCEPT ![p].stage = "post"]
    /\ UNCHANGED <<inFlightRequests, calls, documents, checkVars, indexVars, searchVars, parserVars, lateVars>>

\* generateContextForComments rejects and the rejection leaves the async function
ContextFailedRejects(p) ==
    /\ p \in 1..Len(promises)
    /\ promises[p].stage = "context"
    /\ Settle(p, "rejected")
    /\ UNCHANGED <<calls, documents, checkVars, indexVars, searchVars, parserVars, lateVars>>

\* generateContextForComments rejects: catch returns null, no backend request is sent
ContextFailed(p) ==
    /\ p \in 1..Len(promises)
    /\ promises[p].stage = "context"
    /\ Settle(p, "null")
    /\ UNCHANGED <<calls, documents, checkVars, indexVars, searchVars, parserVars, lateVars>>

\* api.post resolves: return response.data.code
PostDone(p, code) ==
    /\ p \in 1..Len(promises)
    /\ promises[p].stage = "post"
    /\ Settle(p, code)
    /\ UNCHANGED <<calls, documents, checkVars, indexVars, searchVars, parserVars, lateVars>>

\* api.post rejects: catch returns null
PostFailed(p) ==
    /\ p \in 1..Len(promises)
    /\ promises[p].stage = "post"
    /\ Settle(p, "null")
    /\ UNCHANGED <<calls, documents, checkVars, indexVars, searchVars, parserVars, lateVars>>

\* The user edits the document doc: getText() returns text from now on.
EditDocument(doc, text) ==
    /\ documents[doc] # text
    /\ documents' = [documents EXCEPT ![doc] = text]
    /\ UNCHANGED <<inFlightRequests, promises, calls, checkVars, indexVars, searchVars,
                   parserVars, lateVars>>

InitRequests ==
    /\ inFlightRequests = [k \in {} |-> 0]
    /\ promises = <<>>
    /\ calls = <<>>
    /\ documents = [doc \in ReqDocs |-> <<"my $x;">>]

NextRequests ==
    \/ \E comment \in Comments, doc \in ReqDocs, pos \in ReqPositions :
           fetchCodeWithDeduplication(comment, doc, pos)
    \/ \E p \in 1..MaxRequests : ContextDone(p)
    \/ \E p \in 1..MaxRequests : ContextFailed(p)
    \/ \E p \in 1..MaxRequests, code \in Codes : PostDone(p, code)
    \/ \E p \in 1..MaxRequests : PostFailed(p)

\* Requests for one comment at one cursor position, made while the user edits
\* the document.
NextCollapse ==
    \/ \E doc \in ReqDocs :
           fetchCodeWithDeduplication(<<"s">>, doc, [line |-> 1, character |-> 0])
    \/ \E doc \in ReqDocs, text \in DocTexts : EditDocument(doc, text)
    \/ \E p \in 1..MaxRequests : ContextDone(p)
    \/ \E p \in 1..MaxRequests : ContextFailed(p)
    \/ \E p \in 1..MaxRequests, code \in Codes : PostDone(p, code)
    \/ \E p \in 1..MaxRequests : PostFailed(p)

(***************************************************************************)
(* ERROR CHECK                                                             *)
(***************************************************************************)
\* Documents of the editor and their languageId.
CheckDocs == {"a.pl", "b.pl", "notes.txt"}
languageId(doc) == IF doc = "notes.txt" THEN "plaintext" ELSE "perl"

\* updateErrorDiagnostics that installs a new controller without aborting the old one
updateErrorDiagnosticsNoAbort(doc) ==
    /\ Len(checks) < MaxChecks
    /\ IF languageId(doc) # "perl"
       THEN UNCHANGED checkVars
       ELSE /\ controllers' = Append(controllers, FALSE)
            /\ errorCheckAbortController' = Len(controllers) + 1
            /\ checks' = Append(checks, [doc |-> doc, signal |-> Len(controllers) + 1,
                                         stage |-> "awaiting", isClosed |-> FALSE])
            /\ UNCHANGED errorDiagnostics
    /\ UNCHANGED <<reqVars, indexVars, searchVars, parserVars, lateVars>>

\* updateErrorDiagnostics up to `await checkCodeForErrors(code, signal)`.
\* checkCodeForErrors takes (code) only: the signal never reaches api.post, so
\* aborting a controller does not reject or stop the request made with it.
updateErrorDiagnostics(doc) ==
    /\ Len(checks) < MaxChecks
    /\ IF languageId(doc) # "perl"
       THEN UNCHANGED checkVars
       ELSE /\ controllers' = Append([controllers EXCEPT ![errorCheckAbortController] = TRUE],
                                     FALSE)
            /\ errorCheckAbortController' = Len(controllers) + 1
            /\ checks' = Append(checks, [doc |-> doc, signal |-> Len(controllers) + 1,
                                         stage |-> "awaiting", isClosed |-> FALSE])
            /\ UNCHANGED errorDiagnostics
    /\ UNCHANGED <<reqVars, indexVars, searchVars, parserVars, lateVars>>

\* The response of check c arrives with an errors array: the diagnostics are
\* built and errorDiagnostics.set(doc.uri, diagnostics) publishes them.
CheckResponded(c) ==
    /\ c \in 1..Len(checks)
    /\ checks[c].stage = "awaiting"
    /\ checks' = [checks EXCEPT ![c].stage = "published"]
    /\ errorDiagnostics' =
           [d \in DOMAIN errorDiagnostics \cup {checks[c].doc} |->
                IF d = checks[c].doc THEN c ELSE errorDiagnostics[d]]
    /\ UNCHANGED <<errorCheckAbortController, controllers, reqVars, indexVars, searchVars, parserVars, lateVars>>

\* The response has no errors array: logged, nothing published.
CheckInvalidFormat(c) ==
    /\ c \in 1..Len(checks)
    /\ checks[c].stage = "awaiting"
    /\ checks' = [checks EXCEPT ![c].stage = "invalid"]
    /\ UNCHANGED <<errorCheckAbortController, controllers, errorDiagnostics,
                   reqVars, indexVars, searchVars, parserVars, lateVars>>

\* api.post rejects: the catch block logs.
CheckFailed(c) ==
    /\ c \in 1..Len(checks)
    /\ checks[c].stage = "awaiting"
    /\ checks' = [checks EXCEPT ![c].stage = "failed"]
    /\ UNCHANGED <<errorCheckAbortController, controllers, errorDiagnostics,
                   reqVars, indexVars, searchVars, parserVars, lateVars>>

\* The editor closes doc: the TextDocument object, which the checks started on
\* it still hold, gets isClosed = true (a reopened document is a new object),
\* and onDidCloseTextDocument runs errorDiagnostics.delete(doc.uri).
CloseTextDocument(doc) ==
    /\ errorDiagnostics' = [d \in DOMAIN errorDiagnostics \ {doc} |-> errorDiagnostics[d]]
    /\ checks' = [c \in 1..Len(checks) |->
                     IF checks[c].doc = doc THEN [checks[c] EXCEPT !.isClosed = TRUE]
                     ELSE checks[c]]
    /\ UNCHANGED <<errorCheckAbortController, controllers, reqVars, indexVars, searchVars, parserVars, lateVars>>

InitErrorCheck ==
    /\ controllers = <<FALSE>>
    /\ errorCheckAbortController = 1
    /\ checks = <<>>
    /\ errorDiagnostics = [d \in {} |-> 0]

NextErrorCheck ==
    \/ \E doc \in CheckDocs : updateErrorDiagnostics(doc)
    \/ \E c \in 1..MaxChecks : CheckResponded(c)
    \/ \E c \in 1..MaxChecks : CheckInvalidFormat(c)
    \/ \E c \in 1..MaxChecks : CheckFailed(c)
    \/ \E doc \in CheckDocs : CloseTextDocument(doc)

(***************************************************************************)
(* STRUCTURE EXTRACTOR                                                     *)
(***************************************************************************)
\* A file content is a sequence of lexemes; an offset counts lexemes.  The
\* lexemes: a line break, a package declaration with its semicolon, the head of a
\* block-form package, the head of a routine (keyword and name), the head of an
\* anonymous routine, the braces, the comment marker, and any other text.
Lexemes ==
    {"\n", "package P;", "package Q;", "package P", "sub f", "sub g", "sub foo", "sub",
     "{", "}", "#", "x"}

\* The lexemes of raw texts: texts that need not be well-formed programs.
RawLexemes == {"\n", "package P;", "package Q;", "sub f", "{", "}", "#", "x"}

\* \s
IsSpace(c) == c = "\n"

\* package\s+([A-Za-z0-9:]+)\s*;  and its capture group
IsPackage(c) == c \in {"package P;", "package Q;"}
PackageName(c) == IF c = "package P;" THEN "P" ELSE "Q"

\* sub\s+([A-Za-z0-9_]+)  and its capture group
IsSub(c) == c \in {"sub f", "sub g", "sub foo"}
SubName(c) == CASE c = "sub f" -> "f" [] c = "sub g" -> "g" [] OTHER -> "foo"

\* `${package}::${name}`, or the name alone when there is no package
QualifiedName(package, name) ==
    CASE package = ""                 -> name
      [] package = "P" /\ name = "f"   -> "P::f"
      [] package = "P" /\ name = "g"   -> "P::g"
      [] package = "P" /\ name = "foo" -> "P::foo"
      [] package = "Q" /\ name = "f"   -> "Q::f"
      [] package = "Q" /\ name = "g"   -> "Q::g"
      [] OTHER                         -> "Q::foo"

\* contents.substring(start, end), offsets from 0; an end past the text is the
\* end of the text
Substring(contents, start, end) ==
    SubSeq(contents, start + 1, IF end > Len(contents) THEN Len(contents) ELSE end)

\* _getLineNumber: text.substring(0, offset).split('\n').length - 1
_getLineNumber(contents, offset) ==
    Cardinality({i \in 1..offset : contents[i] = "\n"})

\* The first position from i on (positions from 1) that holds no white space.
RECURSIVE SkipSpace(_, _)
SkipSpace(contents, i) ==
    IF i <= Len(contents) /\ IsSpace(contents[i]) THEN SkipSpace(contents, i + 1) ELSE i

\* ^ under the m flag: the start of the text or the position after a line break
LineStart(contents, j) == j = 1 \/ contents[j - 1] = "\n"

\* The exec loop of /^\s*package\s+([A-Za-z0-9:]+)\s*;/gm from position j: each
\* match starts at a line start, runs over white space and ends with a package
\* declaration; the next search starts where the match ended.
RECURSIVE PackageMatches(_, _)
PackageMatches(contents, j) ==
    IF j > Len(contents) THEN <<>>
    ELSE LET k == SkipSpace(contents, j)
         IN  IF LineStart(contents, j) /\ k <= Len(contents) /\ IsPackage(contents[k])
             THEN <<[name |-> PackageName(contents[k]), start |-> j - 1]>>
                      \o PackageMatches(contents, k + 1)
             ELSE PackageMatches(contents, j + 1)

\* packageRanges with their end: the start of the next package, or contents.length
packageRanges(contents) ==
    LET ms == PackageMatches(contents, 1)
    IN  [i \in 1..Len(ms) |->
            [name |-> ms[i].name, start |-> ms[i].start,
             end |-> IF i < Len(ms) THEN ms[i + 1].start ELSE Len(contents)]]

\* Where a match of the routine pattern that has its routine head at position k
\* ends (the position after it), or 0 when the tail (?:\s*\{|\s*$|...) does not
\* match: white space then an opening brace; or white space up to the end of a
\* line.  (No lexeme holds a parenthesis, so the third alternative never applies.)
SubMatchEnd(contents, k) ==
    LET q == SkipSpace(contents, k + 1)
    IN  IF q <= Len(contents) /\ contents[q] = "{" THEN q + 1
        ELSE IF q > Len(contents) THEN q
        ELSE IF q > k + 1 THEN q - 1
        ELSE 0

\* The exec loop of the routine pattern from position j.
RECURSIVE SubMatches(_, _)
SubMatches(contents, j) ==
    IF j > Len(contents) THEN <<>>
    ELSE LET k == SkipSpace(contents, j)
             e == IF k <= Len(contents) /\ IsSub(contents[k])
                  THEN SubMatchEnd(contents, k) ELSE 0
         IN  IF LineStart(contents, j) /\ e # 0
             THEN <<[name |-> SubName(contents[k]), start |-> j - 1]>>
                      \o SubMatches(contents, e)
             ELSE SubMatches(contents, j + 1)

\* A brace matching loop that reports the offset after the last one inspected
\* when the text ends before the braces balance.
RECURSIVE FindSubEndPastText(_, _, _, _, _)
FindSubEndPastText(contents, i, braceCount, inComment, startPos) ==
    IF i >= Len(contents) THEN i + 1
    ELSE LET char == contents[i + 1]
         IN  IF ~inComment /\ char = "}" /\ braceCount - 1 = 0 THEN i + 1
             ELSE FindSubEndPastText(contents, i + 1,
                      IF inComment THEN braceCount
                      ELSE IF char = "{" THEN braceCount + 1
                      ELSE IF char = "}" THEN braceCount - 1 ELSE braceCount,
                      IF char = "#" THEN TRUE
                      ELSE IF char = "\n" THEN FALSE ELSE inComment,
                      startPos)

\* The brace matching loop from offset i: the offset after the closing brace that
\* brings braceCount back to 0, or startPos when the text ends first.
RECURSIVE FindSubEnd(_, _, _, _, _)
FindSubEnd(contents, i, braceCount, inComment, startPos) ==
    IF i >= Len(contents) THEN startPos
    ELSE LET char == contents[i + 1]
         IN  IF char = "#" /\ ~inComment
             THEN FindSubEnd(contents, i + 1, braceCount, TRUE, startPos)
             ELSE IF char = "\n" /\ inComment
             THEN FindSubEnd(contents, i + 1, braceCount, FALSE, startPos)
             ELSE IF ~inComment /\ char = "{"
             THEN FindSubEnd(contents, i + 1, braceCount + 1, inComment, startPos)
             ELSE IF ~inComment /\ char = "}"
             THEN (IF braceCount - 1 = 0 THEN i + 1
                   ELSE FindSubEnd(contents, i + 1, braceCount - 1, inComment, startPos))
             ELSE FindSubEnd(contents, i + 1, braceCount, inComment, startPos)

\* The package a routine at startPos belongs to: the first range that holds it.
CurrentPackage(ranges, startPos) ==
    LET holding == {i \in 1..Len(ranges) :
                       startPos >= ranges[i].start /\ startPos < ranges[i].end}
    IN  IF holding = {} THEN ""
        ELSE ranges[CHOOSE i \in holding : \A h \in holding : i <= h].name

\* The structure pushed for one match of the routine pattern.
SubStructure(contents, match, package) ==
    LET startPos == match.start
        endPos == FindSubEnd(contents, startPos, 0, FALSE, startPos)
    IN  [name |-> QualifiedName(package, match.name),
         type |-> "subroutine",
         content |-> Substring(contents, startPos, endPos),
         range |-> [start |-> startPos, end |-> endPos],
         line |-> _getLineNumber(contents, startPos)]

\* _extractStructuresWithRegex: the routines found by the pattern, in text order,
\* each qualified by the package range that holds its start.
_extractStructuresWithRegex(contents) ==
    LET ranges == packageRanges(contents)
        ms == SubMatches(contents, 1)
    IN  [n \in 1..Len(ms) |->
            SubStructure(contents, ms[n], CurrentPackage(ranges, ms[n].start))]

\* The earlier _extractStructuresWithRegex: one package structure per package
\* range, then the routines, every one qualified by the value currentPackage
\* has after the package loop: the name of the last package of the file.
_extractStructuresWithRegexEarlier(contents) ==
    LET ranges == packageRanges(contents)
        ms == SubMatches(contents, 1)
        currentPackage == IF ranges = <<>> THEN "" ELSE ranges[Len(ranges)].name
    IN  [i \in 1..Len(ranges) |->
            [name |-> ranges[i].name,
             type |-> "package",
             content |-> Substring(contents, ranges[i].start, ranges[i].end),
             range |-> [start |-> ranges[i].start, end |-> ranges[i].end],
             line |-> _getLineNumber(contents, ranges[i].start)]]
        \o [n \in 1..Len(ms) |-> SubStructure(contents, ms[n], currentPackage)]

\* --- Programs and their parse trees -----------------------------------------
\* A program is a sequence of statements; a statement is a package declaration,
\* a block-form package, a named or anonymous routine, a bare block, a loop, a
\* comment, or any other statement (on a line of its own, or inline).  Its text is what Unparse writes and its
\* parse tree is what the Perl grammar of the parser builds over that text.
Statement(kind, name, body) == [kind |-> kind, name |-> name, body |-> body]
Expr    == Statement("expr", "", <<>>)
Comment == Statement("comment", "", <<>>)

\* The statements of the programs given to the extractor, and of those given to
\* getCurrentBlock.
ExtractorStatements ==
    {Expr, Statement("package", "P", <<>>), Statement("package", "Q", <<>>),
     Statement("sub", "f", <<>>), Statement("sub", "g", <<Comment>>),
     Statement("anon", "", <<Expr>>),
     Statement("bare", "", <<Statement("sub", "g", <<Expr>>)>>),
     Statement("bare", "", <<Statement("package", "Q", <<>>)>>),
     Statement("packageBlock", "P", <<Statement("sub", "g", <<>>)>>)}

BlockStatements ==
    {Expr, Comment, Statement("inline", "", <<>>),
     Statement("sub", "f", <<Comment>>),
     Statement("sub", "g", <<Statement("bare", "", <<Expr>>)>>),
     Statement("sub", "f", <<Statement("while", "", <<Expr>>)>>),
     Statement("bare", "", <<Statement("sub", "g", <<Expr>>)>>),
     Statement("bare", "", <<Comment>>)}

ProgramsOf(statements, max) == UNION {[1..n -> statements] : n \in 0..max}

ExtractorPrograms == ProgramsOf(ExtractorStatements, MaxStatements)
BlockPrograms     == ProgramsOf(BlockStatements, MaxBlockStatements)
Programs          == ExtractorPrograms \cup BlockPrograms

\* Texts that need not be programs: every sequence of lexemes up to MaxLen.
RawTexts == UNION {[1..n -> RawLexemes] : n \in 0..MaxLen}

SubHead(name) == CASE name = "f" -> "sub f" [] name = "g" -> "sub g" [] OTHER -> "sub foo"

RECURSIVE Unparse(_)
RECURSIVE UnparseStatement(_)
UnparseStatement(s) ==
    CASE s.kind = "package" ->
             <<IF s.name = "P" THEN "package P;" ELSE "package Q;", "\n">>
      [] s.kind = "packageBlock" ->
             <<"package P", "{", "\n">> \o Unparse(s.body) \o <<"}", "\n">>
      [] s.kind = "sub" ->
             <<SubHead(s.name), "{", "\n">> \o Unparse(s.body) \o <<"}", "\n">>
      [] s.kind = "anon" ->
             <<"sub", "{", "\n">> \o Unparse(s.body) \o <<"}", "\n">>
      [] s.kind = "while" ->
             <<"while", "{", "\n">> \o Unparse(s.body) \o <<"}", "\n">>
      [] s.kind = "bare" ->
             <<"{", "\n">> \o Unparse(s.body) \o <<"}", "\n">>
      [] s.kind = "comment" -> <<"#", "x", "\n">>
      [] s.kind = "inline" -> <<"x">>
      [] OTHER -> <<"x", "\n">>

Unparse(statements) ==
    IF statements = <<>> THEN <<>>
    ELSE UnparseStatement(Head(statements)) \o Unparse(Tail(statements))

\* A syntax node: its type, its range, the text of its name child ("" when it has
\* none: node.child(1) of a package statement, childForFieldName('name') of a
\* routine), and its children in order.
Node(type, startIndex, endIndex, name, children) ==
    [type |-> type, startIndex |-> startIndex, endIndex |-> endIndex, name |-> name,
     children |-> children]

\* The nodes of a statement sequence whose text starts at offset o.  A node ends
\* before the line break that follows its statement; an inline statement has no
\* line break after it, so the next node starts where it ends.
RECURSIVE NodesOf(_, _)
RECURSIVE NodeOf(_, _)
NodeOf(s, o) ==
    LET end == IF s.kind = "inline" THEN o + 1 ELSE o + Len(UnparseStatement(s)) - 1
        block == Node("block", o + 1, end, "", NodesOf(s.body, o + 3))
    IN  CASE s.kind = "package"      -> Node("package_statement", o, end, s.name, <<>>)
          [] s.kind = "packageBlock" -> Node("package_statement", o, end, s.name, <<block>>)
          [] s.kind = "sub"          -> Node("function_definition", o, end, s.name, <<block>>)
          [] s.kind = "anon"         -> Node("anonymous_function", o, end, "", <<block>>)
          [] s.kind = "while"        -> Node("while_statement", o, end, "", <<block>>)
          [] s.kind = "bare"         ->
                 Node("standalone_block", o, end, "", NodesOf(s.body, o + 2))
          [] s.kind = "comment"      -> Node("comment", o, end, "", <<>>)
          [] OTHER                   -> Node("expression_statement", o, end, "", <<>>)

NodesOf(statements, o) ==
    IF statements = <<>> THEN <<>>
    ELSE <<NodeOf(Head(statements), o)>>
             \o NodesOf(Tail(statements), o + Len(UnparseStatement(Head(statements))))

\* tree.rootNode of parser.parse(contents) for the text of a program
RootNode(program) ==
    Node("source_file", 0, Len(Unparse(program)), "", NodesOf(program, 0))

\* The outcome of parser.parse: a tree, or an exception.
Parsed(program) == [ok |-> TRUE, rootNode |-> RootNode(program)]
ParseThrows     == [ok |-> FALSE, rootNode |-> Node("ERROR", 0, 0, "", <<>>)]

\* parser.parse(contents): the tree of the program that has this text; a text that
\* is no program gets a root that holds one ERROR node.
parse(contents) ==
    IF \E program \in Programs : Unparse(program) = contents
    THEN Parsed(CHOOSE program \in Programs : Unparse(program) = contents)
    ELSE [ok |-> TRUE,
          rootNode |-> Node("source_file", 0, Len(contents), "",
                            <<Node("ERROR", 0, Len(contents), "", <<>>)>>)]

\* _extractStructuresFromTree: the routines under a node, in document order.  The
\* package name set at a package statement is passed to that node's children only.
RECURSIVE _extractStructuresFromTree(_, _, _)
RECURSIVE ExtractChildren(_, _, _)
_extractStructuresFromTree(node, contents, parentPackage) ==
    IF node.type = "package_statement" /\ node.name = "" THEN <<>>
    ELSE LET package == IF node.type = "package_statement" THEN node.name
                        ELSE parentPackage
             own == IF /\ node.type \in {"function_definition", "anonymous_function"}
                       /\ node.name # ""
                    THEN <<[name |-> QualifiedName(package, node.name),
                            type |-> "subroutine",
                            content |-> Substring(contents, node.startIndex, node.endIndex),
                            range |-> [start |-> node.startIndex, end |-> node.endIndex],
                            line |-> _getLineNumber(contents, node.startIndex)]>>
                    ELSE <<>>
         IN  own \o ExtractChildren(node.children, contents, package)

ExtractChildren(children, contents, parentPackage) ==
    IF children = <<>> THEN <<>>
    ELSE _extractStructuresFromTree(Head(children), contents, parentPackage)
             \o ExtractChildren(Tail(children), contents, parentPackage)

\* The earlier _extractStructuresFromTree: a package statement also pushes a
\* package structure that runs to the start of the next package statement among
\* the children of the root, or to the end of the text when the node is the last
\* of them or is not a child of the root.
RECURSIVE _extractStructuresFromTreeEarlier(_, _, _, _)
RECURSIVE ExtractChildrenEarlier(_, _, _, _)
_extractStructuresFromTreeEarlier(root, node, contents, parentPackage) ==
    IF node.type = "package_statement" /\ node.name = "" THEN <<>>
    ELSE LET package == IF node.type = "package_statement" THEN node.name
                        ELSE parentPackage
             pkgs == SelectSeq(root.children, LAMBDA n : n.type = "package_statement")
             myIndex == {i \in 1..Len(pkgs) : pkgs[i] = node}
             pkgEnd == IF \E i \in myIndex : i < Len(pkgs)
                       THEN pkgs[(CHOOSE i \in myIndex : TRUE) + 1].startIndex
                       ELSE Len(contents)
             ownPackage ==
                 IF node.type = "package_statement"
                 THEN <<[name |-> node.name,
                         type |-> "package",
                         content |-> Substring(contents, node.startIndex, pkgEnd),
                         range |-> [start |-> node.startIndex, end |-> pkgEnd],
                         line |-> _getLineNumber(contents, node.startIndex)]>>
                 ELSE <<>>
             own == IF /\ node.type \in {"function_definition", "anonymous_function"}
                       /\ node.name # ""
                    THEN <<[name |-> QualifiedName(package, node.name),
                            type |-> "subroutine",
                            content |-> Substring(contents, node.startIndex, node.endIndex),
                            range |-> [start |-> node.startIndex, end |-> node.endIndex],
                            line |-> _getLineNumber(contents, node.startIndex)]>>
                    ELSE <<>>
         IN  ownPackage \o own
                 \o ExtractChildrenEarlier(root, node.children, contents, package)

ExtractChildrenEarlier(root, children, contents, parentPackage) ==
    IF children = <<>> THEN <<>>
    ELSE _extractStructuresFromTreeEarlier(root, Head(children), contents, parentPackage)
             \o ExtractChildrenEarlier(root, Tail(children), contents, parentPackage)

\* --- getCodeStructures -------------------------------------------------------
\* The values of the module variable `parser`.
NoParser   == "null"
PerlParser == "Parser"

\* contents.length < 10000: the file-level structure is added for small files
SmallFileLimit == 10000

\* filepath.split(/[\/\\]/).pop()
basename(filepath) == IF filepath = "lib/b.pm" THEN "b.pm" ELSE filepath

FileStructure(filepath, contents) ==
    [name |-> basename(filepath), type |-> "file", content |-> contents,
     range |-> [start |-> 0, end |-> Len(contents)], line |-> 0]

\* The texts the indexed files can hold, and what the patterns find in each of
\* them (a table, so that it is computed once).
Contents == {<<>>, <<"sub foo", "{", "}">>}
PatternStructures == [c \in Contents |-> _extractStructuresWithRegex(c)]

\* The body of getCodeStructures for a value p of `parser` and an outcome of
\* parser.parse: the tree walk when there is a parser, the patterns otherwise, then
\* the file-level structure; an exception leaves the try block before that push,
\* and the catch returns what was collected until then.
getCodeStructuresWith(p, parsed, filepath, contents) ==
    IF p # NoParser
    THEN IF parsed.ok
         THEN _extractStructuresFromTree(parsed.rootNode, contents, "")
                  \o (IF Len(contents) < SmallFileLimit
                      THEN <<FileStructure(filepath, contents)>> ELSE <<>>)
         ELSE <<>>
    ELSE (IF contents \in Contents THEN PatternStructures[contents]
          ELSE _extractStructuresWithRegex(contents))
             \o (IF Len(contents) < SmallFileLimit
                 THEN <<FileStructure(filepath, contents)>> ELSE <<>>)

\* PerlCodeStructureIndex.getCodeStructures, with the parser the module captured.
getCodeStructures(filepath, contents) ==
    getCodeStructuresWith(parser, parse(contents), filepath, contents)

\* The body of the earlier getCodeStructures (src/unnamed/part_005).
getCodeStructuresEarlierWith(p, parsed, filepath, contents) ==
    IF p # NoParser
    THEN IF parsed.ok
         THEN _extractStructuresFromTreeEarlier(parsed.rootNode, parsed.rootNode,
                                                contents, "")
                  \o (IF Len(contents) < SmallFileLimit
                      THEN <<FileStructure(filepath, contents)>> ELSE <<>>)
         ELSE <<>>
    ELSE _extractStructuresWithRegexEarlier(contents)
             \o (IF Len(contents) < SmallFileLimit
                 THEN <<FileStructure(filepath, contents)>> ELSE <<>>)

(***************************************************************************)
(* CODEBASE INDEXER                                                        *)
(***************************************************************************)
\* Files of the workspace.  A file content is the sequence of the names of the
\* subroutines it declares (no package statement).  The file system belongs to
\* the user and other programs: what a glob or a read finds is an input of the
\* step that completes it.
Paths    == {"a.pl", "lib/b.pm", "c.txt"}

\* What the watched files hold while the file watcher is observed.
WatchedContents == {<<"sub foo", "{", "}">>}

\* path.extname
extname(filepath) ==
    CASE filepath = "a.pl"  -> ".pl"
      [] filepath = "lib/b.pm" -> ".pm"
      [] filepath = "c.txt" -> ".txt"
      [] OTHER              -> ""

\* PerlCodebaseIndexer.isPerlFile
isPerlFile(filepath) == extname(filepath) \in {".pl", ".pm", ".t"}

PerlPaths == {f \in Paths : isPerlFile(f)}

\* glob('**/*.{pl,pm,t}') over the files present: those that match, in a fixed order
PathOrder == <<"a.pl", "lib/b.pm", "c.txt">>
discoverPerlFiles(present) ==
    SelectSeqBy(PathOrder, {i \in 1..Len(PathOrder) :
                               isPerlFile(PathOrder[i]) /\ PathOrder[i] \in present})

\* The positions a structure can have in the list extracted from a file.
StructureIndexes == UNION {1..Len(getCodeStructures("a.pl", c)) : c \in Contents}

\* MiniLmEmbeddingProvider.embed: the vector is a function of the text
embed(text) == <<"all-MiniLM-L6-v2">> \o text

\* The values Date.now() can return: one more than the reads that can happen.
Times == 0..(MaxEvents + 2)

\* `${filepath}:${Date.now()}`
CacheKey(filepath, now) == <<filepath, ":", now>>

\* The row written at table creation.
Placeholder ==
    [path |-> "", cacheKey |-> <<>>, content |-> <<>>, title |-> "",
     vector |-> <<"zeros">>, type |-> ""]

\* The rows a previous session of the extension left in the table on disk.
PreviousSession ==
    LET row(f, c, title, type) ==
            [path |-> f, cacheKey |-> CacheKey(f, -1), content |-> c, title |-> title,
             vector |-> embed(c), type |-> type]
    IN  <<row("a.pl", <<"sub foo", "{", "}">>, "foo", "subroutine"),
          row("a.pl", <<"sub foo", "{", "}">>, "a.pl", "file"),
          row("lib/b.pm", <<>>, "b.pm", "file")>>

RowsOf(t, filepath) == SelectSeqBy(t, {i \in 1..Len(t) : t[i].path = filepath})

\* A delete whose condition matches every row
tableDeleteAll(t, filepath) == <<>>

\* A delete that removes nothing
tableDeleteNothing(t, filepath) == t

\* table.delete(`path = '${sanitizedPath}'`): the rows whose path equals filepath go
tableDelete(t, filepath) == SelectSeqBy(t, {i \in 1..Len(t) : t[i].path # filepath})

\* The records vectorIndex.update builds from the structures whose embedding
\* succeeded (keep: their indexes).
BuildRecords(file, keep) ==
    LET ss == getCodeStructures(file.path, file.content)
        kept == SelectSeqBy(ss, keep)
    IN  [i \in 1..Len(kept) |->
            [path |-> file.path, cacheKey |-> file.cacheKey, content |-> kept[i].content,
             title |-> kept[i].name, vector |-> embed(kept[i].content),
             type |-> kept[i].type]]

\* PerlCodeStructureIndex.update([file]): this.structures.set(file.path, structures)
structureIndexUpdate(file) ==
    [f \in DOMAIN structures \cup {file.path} |->
        IF f = file.path THEN getCodeStructures(file.path, file.content)
        ELSE structures[f]]

\* PerlCodeStructureIndex.delete(filepath): this.structures.delete(filepath)
structureIndexDelete(filepath) ==
    [f \in DOMAIN structures \ {filepath} |-> structures[f]]

Idle ==
    [kind |-> "none", path |-> "", pc |-> "idle", content |-> <<>>, cacheKey |-> <<>>,
     records |-> <<>>, failed |-> FALSE]

\* Slot 0 holds the indexFile call of the indexWorkspace loop, slot n the
\* refreshFile or deleteFromIndex call started by the n-th watcher notification.
Slots == 0..MaxEvents
Running(i) == tasks[i].kind # "none"

\* An indexFile call is between its first and its last store operation.
Indexing(i) ==
    tasks[i].kind \in {"refresh", "workspace"} /\ tasks[i].pc \in {"delete", "add"}

\* indexFile(fileInfo) up to the first store await: the structure index is
\* updated, vectorIndex.update calls this.delete(file.path), which awaits the table.
BeginIndexFile(i, kind, file) ==
    /\ structures' = structureIndexUpdate(file)
    /\ tasks' = [tasks EXCEPT ![i] =
                    [kind |-> kind, path |-> file.path, pc |-> "delete",
                     content |-> file.content, cacheKey |-> file.cacheKey,
                     records |-> <<>>, failed |-> FALSE]]

\* refreshFile(filepath) up to `await fs.readFile(...)`
StartRefresh(filepath) ==
    /\ events < MaxEvents
    /\ events' = events + 1
    /\ IF isPerlFile(filepath)
       THEN tasks' = [tasks EXCEPT ![events + 1] = [Idle EXCEPT !.kind = "refresh",
                                                                !.path = filepath,
                                                                !.pc = "read"]]
       ELSE UNCHANGED tasks
    /\ UNCHANGED <<structures, table, clock, workspace, cancelRequested, snapshots,
                   reqVars, checkVars, searchVars, parserVars, lateVars>>

\* fileWatcher.onDidCreate handler
onDidCreate(filepath) == StartRefresh(filepath)

\* fileWatcher.onDidChange handler
onDidChange(filepath) == StartRefresh(filepath)

\* fileWatcher.onDidDelete handler: deleteFromIndex(filepath) up to the first
\* store await; structureIndex.delete has run.
onDidDelete(filepath) ==
    /\ events < MaxEvents
    /\ events' = events + 1
    /\ IF isPerlFile(filepath)
       THEN /\ structures' = structureIndexDelete(filepath)
            /\ tasks' = [tasks EXCEPT ![events + 1] = [Idle EXCEPT !.kind = "delete",
                                                                   !.path = filepath,
                                                                   !.pc = "delete"]]
       ELSE UNCHANGED <<structures, tasks>>
    /\ UNCHANGED <<table, clock, workspace, cancelRequested, snapshots,
                   reqVars, checkVars, searchVars, parserVars, lateVars>>

\* processed / validFiles.length, the number given to progressCallback: the
\* quotient of two counts, kept as numerator and denominator.
QuotientBeforeIncrement(processed, total) == <<processed - 1, total>>
Quotient(processed, total) == <<processed, total>>

\* a / b < c / d and a / b = c / d for quotients with positive denominators
Less(p, q) == p[1] * q[2] < q[1] * p[2]
Same(p, q) == p[1] * q[2] = q[1] * p[2]

\* An indexFile return after which a failure of the file ends the workspace loop
FinishIndexFileStopOnFailure(i, failed, newTable) ==
    LET done == workspace.processed + 1
    IN  /\ snapshots' = snapshots
        /\ IF i = 0 /\ ~failed /\ done < Len(workspace.validFiles)
           THEN /\ workspace' = [workspace EXCEPT !.processed = done,
                         !.reports = Append(@, Quotient(done, Len(workspace.validFiles))),
                         !.started = Append(@, workspace.validFiles[done + 1].path)]
                /\ BeginIndexFile(0, "workspace", workspace.validFiles[done + 1])
           ELSE /\ workspace' = IF i = 0
                                THEN [workspace EXCEPT !.processed = done, !.pc = "done",
                              !.reports = Append(@, Quotient(done, Len(workspace.validFiles)))]
                                ELSE workspace
                /\ tasks' = [tasks EXCEPT ![i] = Idle]
                /\ structures' = structures

\* What happens when the indexFile call of slot i returns.  For the workspace
\* loop: processed++, the progress callback, and the next file's indexFile call
\* (the loop tests no cancellation token); after the last file the run is complete.
\* For refreshFile: the call is over; the observer records the index state.
FinishIndexFile(i, failed, newTable) ==
    IF i = 0
    THEN LET done == workspace.processed + 1
         IN  /\ snapshots' = snapshots
             /\ IF done < Len(workspace.validFiles)
                THEN /\ workspace' = [workspace EXCEPT !.processed = done,
                              !.reports = Append(@, Quotient(done, Len(workspace.validFiles))),
                              !.started = Append(@, workspace.validFiles[done + 1].path)]
                     /\ BeginIndexFile(0, "workspace", workspace.validFiles[done + 1])
                ELSE /\ workspace' = [workspace EXCEPT !.processed = done, !.pc = "done",
                              !.reports = Append(@, Quotient(done, Len(workspace.validFiles)))]
                     /\ tasks' = [tasks EXCEPT ![0] = Idle]
                     /\ structures' = structures
    ELSE /\ tasks' = [tasks EXCEPT ![i] = Idle]
         /\ UNCHANGED <<structures, workspace>>
         /\ snapshots' =
                IF snapshots.on
                THEN [snapshots EXCEPT !.seq = Append(@,
                         [path |-> tasks[i].path, content |-> tasks[i].content,
                          failed |-> failed, structures |-> structures,
                          table |-> newTable])]
                ELSE snapshots

\* Date.now() does not go back: it returns the latest value again, or a later one.
Later == {clock, clock + 1}

\* refreshFile: fs.readFile resolves with content at time now; fileInfo is built
\* and indexFile is called.
RefreshReadDone(i, content, now) ==
    /\ i \in 1..MaxEvents
    /\ tasks[i].kind = "refresh" /\ tasks[i].pc = "read"
    /\ now \in Later
    /\ clock' = now
    /\ BeginIndexFile(i, "refresh",
           [path |-> tasks[i].path, content |-> content,
            cacheKey |-> CacheKey(tasks[i].path, now)])
    /\ UNCHANGED <<table, workspace, cancelRequested, events, snapshots,
                   reqVars, checkVars, searchVars, parserVars, lateVars>>

\* refreshFile: fs.readFile rejects; the catch block logs.
RefreshReadFailed(i) ==
    /\ i \in 1..MaxEvents
    /\ tasks[i].kind = "refresh" /\ tasks[i].pc = "read"
    /\ tasks' = [tasks EXCEPT ![i] = Idle]
    /\ UNCHANGED <<structures, table, clock, workspace, cancelRequested, events, snapshots,
                   reqVars, checkVars, searchVars, parserVars, lateVars>>

\* What follows the delete step of slot i.  In deleteFromIndex the row count is
\* read once more.  In vectorIndex.update the structures are extracted and
\* embedded (keep: the indexes of the structures whose embedding succeeds; the
\* embedding touches no shared state, so it is folded into this step); with
\* records to add, table.add(records) is awaited, with none, update returns.
AfterDelete(i, keep, deleteFailed, newTable) ==
    IF tasks[i].kind = "delete"
    THEN /\ tasks' = [tasks EXCEPT ![i] =
                         IF deleteFailed THEN Idle ELSE [@ EXCEPT !.pc = "afterDelete"]]
         /\ UNCHANGED <<structures, workspace, snapshots>>
    ELSE LET file == [path |-> tasks[i].path, content |-> tasks[i].content,
                      cacheKey |-> tasks[i].cacheKey]
             n == Len(getCodeStructures(file.path, file.content))
             records == BuildRecords(file, keep \cap (1..n))
             failed == deleteFailed \/ ~(1..n \subseteq keep)
         IN  IF records # <<>>
             THEN /\ tasks' = [tasks EXCEPT ![i].pc = "add", ![i].records = records,
                                            ![i].failed = failed]
                  /\ UNCHANGED <<structures, workspace, snapshots>>
             ELSE FinishIndexFile(i, failed, newTable)

\* PerlVectorIndex.delete: countRows and table.delete(condition) have run.
TableDeleteDone(i, keep) ==
    /\ i \in Slots
    /\ tasks[i].pc = "delete"
    /\ keep \subseteq 1..Len(getCodeStructures(tasks[i].path, tasks[i].content))
    /\ tasks[i].kind = "delete" => keep = {}
    /\ table' = tableDelete(table, tasks[i].path)
    /\ AfterDelete(i, keep, FALSE, tableDelete(table, tasks[i].path))
    /\ UNCHANGED <<clock, cancelRequested, events, reqVars, checkVars, searchVars, parserVars, lateVars>>

\* PerlVectorIndex.delete: countRows or table.delete throws; the catch block of
\* delete logs and delete returns normally, so update goes on to embed and insert.
TableDeleteFailed(i, keep) ==
    /\ i \in Slots
    /\ tasks[i].pc = "delete"
    /\ keep \subseteq 1..Len(getCodeStructures(tasks[i].path, tasks[i].content))
    /\ tasks[i].kind = "delete" => keep = {}
    /\ AfterDelete(i, keep, TRUE, table)
    /\ UNCHANGED <<table, clock, cancelRequested, events, reqVars, checkVars, searchVars, parserVars, lateVars>>

\* deleteFromIndex: the row count after the deletion is read and logged, and
\* deleteFromIndex returns.
DeleteFromIndexDone(i) ==
    /\ i \in 1..MaxEvents
    /\ tasks[i].kind = "delete" /\ tasks[i].pc = "afterDelete"
    /\ tasks' = [tasks EXCEPT ![i] = Idle]
    /\ UNCHANGED <<structures, table, clock, workspace, cancelRequested, events, snapshots,
                   reqVars, checkVars, searchVars, parserVars, lateVars>>

\* table.add(records) resolves.
TableAddDone(i) ==
    /\ i \in Slots
    /\ tasks[i].pc = "add"
    /\ table' = table \o tasks[i].records
    /\ FinishIndexFile(i, tasks[i].failed, table \o tasks[i].records)
    /\ UNCHANGED <<clock, cancelRequested, events, reqVars, checkVars, searchVars, parserVars, lateVars>>

\* table.add(records) rejects; the catch block of update logs.
TableAddFailed(i) ==
    /\ i \in Slots
    /\ tasks[i].pc = "add"
    /\ FinishIndexFile(i, TRUE, table)
    /\ UNCHANGED <<table, clock, cancelRequested, events, reqVars, checkVars, searchVars, parserVars, lateVars>>

\* indexWorkspace(progressCallback) up to `await this.discoverPerlFiles()`.
\* initializeCodebaseIndexer passes (callback, token); the function declares one
\* parameter, so the token is dropped.
indexWorkspace ==
    /\ workspace.pc = "idle"
    /\ workspace' = [workspace EXCEPT !.pc = "discover"]
    /\ UNCHANGED <<structures, table, clock, tasks, cancelRequested, events, snapshots,
                   reqVars, checkVars, searchVars, parserVars, lateVars>>

\* glob resolves; every discovered file is read (Promise.all).
DiscoverDone(present) ==
    /\ workspace.pc = "discover"
    /\ LET perlFiles == discoverPerlFiles(present)
       IN  workspace' =
               IF perlFiles = <<>>
               THEN [workspace EXCEPT !.pc = "done"]
               ELSE [workspace EXCEPT !.pc = "read",
                        !.fileInfos = [k \in 1..Len(perlFiles) |->
                            [path |-> perlFiles[k], state |-> "pending",
                             content |-> <<>>, cacheKey |-> <<>>]]]
    /\ UNCHANGED <<structures, table, clock, tasks, cancelRequested, events, snapshots,
                   reqVars, checkVars, searchVars, parserVars, lateVars>>

\* One fs.readFile of indexWorkspace settles with info: a file info, or null when
\* the read fails.  When the last one settles the nulls are filtered out and the
\* loop calls indexFile for the first valid file.
WorkspaceReadSettled(k, info, now) ==
    /\ workspace.pc = "read"
    /\ now \in Later
    /\ clock' = now
    /\ k \in 1..Len(workspace.fileInfos)
    /\ workspace.fileInfos[k].state = "pending"
    /\ LET fileInfos == [workspace.fileInfos EXCEPT ![k] = info]
           validFiles == SelectSeqBy(fileInfos,
                             {j \in 1..Len(fileInfos) : fileInfos[j].state = "read"})
           readOk == IF info.state = "read" THEN workspace.readOk \cup {info.path}
                     ELSE workspace.readOk
       IN  IF \E j \in 1..Len(fileInfos) : fileInfos[j].state = "pending"
           THEN /\ workspace' = [workspace EXCEPT !.fileInfos = fileInfos,
                                                  !.readOk = readOk]
                /\ UNCHANGED <<structures, tasks>>
           ELSE IF validFiles = <<>>
           THEN /\ workspace' = [workspace EXCEPT !.fileInfos = <<>>, !.pc = "done",
                                                  !.readOk = readOk]
                /\ UNCHANGED <<structures, tasks>>
           ELSE /\ workspace' = [workspace EXCEPT !.fileInfos = <<>>, !.pc = "index",
                                                  !.validFiles = validFiles,
                                                  !.readOk = readOk,
                                                  !.started = <<validFiles[1].path>>]
                /\ BeginIndexFile(0, "workspace", validFiles[1])
    /\ UNCHANGED <<table, cancelRequested, events, snapshots, reqVars, checkVars, searchVars, parserVars, lateVars>>

\* fs.readFile of the k-th discovered file resolves with content at time now.
WorkspaceReadDone(k, content, now) ==
    /\ k \in 1..Len(workspace.fileInfos)
    /\ WorkspaceReadSettled(k, [path |-> workspace.fileInfos[k].path, state |-> "read",
                                content |-> content,
                                cacheKey |-> CacheKey(workspace.fileInfos[k].path, now)],
                            now)

\* fs.readFile of the k-th discovered file rejects: logged, the entry is null.
WorkspaceReadFailed(k) ==
    /\ k \in 1..Len(workspace.fileInfos)
    /\ WorkspaceReadSettled(k, [workspace.fileInfos[k] EXCEPT !.state = "null"], clock)

\* The user presses Cancel in the progress notification of withProgress.
CancelRequest ==
    /\ workspace.pc \in {"discover", "read", "index"}
    /\ ~cancelRequested
    /\ cancelRequested' = TRUE
    /\ UNCHANGED <<structures, table, clock, tasks, workspace, events, snapshots,
                   reqVars, checkVars, searchVars, parserVars, lateVars>>

InitIndexer ==
    /\ structures = [f \in {} |-> <<>>]
    /\ table \in {<<Placeholder>>, <<Placeholder>> \o PreviousSession}
    /\ clock = 0
    /\ tasks = [i \in Slots |-> Idle]
    /\ workspace = [pc |-> "idle", fileInfos |-> <<>>, validFiles |-> <<>>, processed |-> 0,
                    readOk |-> {}, started |-> <<>>, reports |-> <<>>]
    /\ cancelRequested = FALSE
    /\ events = 0
    /\ snapshots \in {[on |-> b, seq |-> <<>>] : b \in BOOLEAN}

\* The steps of an indexFile or deleteFromIndex call in progress.
NextStoreSteps ==
    \/ \E i \in Slots :
           /\ tasks[i].pc = "delete"
           /\ \E keep \in SUBSET (1..Len(getCodeStructures(tasks[i].path, tasks[i].content))) :
                  TableDeleteDone(i, keep)
    \/ \E i \in Slots :
           /\ tasks[i].pc = "delete"
           /\ \E keep \in SUBSET (1..Len(getCodeStructures(tasks[i].path, tasks[i].content))) :
                  TableDeleteFailed(i, keep)
    \/ \E i \in Slots : TableAddDone(i)
    \/ \E i \in Slots : TableAddFailed(i)

\* The file watcher and the operations it starts.
NextWatcher ==
    \/ NextStoreSteps
    \/ \E f \in Paths : onDidCreate(f)
    \/ \E f \in Paths : onDidChange(f)
    \/ \E f \in Paths : onDidDelete(f)
    \/ \E i \in Slots :
           /\ tasks[i].pc = "read"
           /\ \E c \in WatchedContents, now \in Times : RefreshReadDone(i, c, now)
    \/ \E i \in Slots : RefreshReadFailed(i)
    \/ \E i \in Slots : DeleteFromIndexDone(i)

\* The structures of the file of slot i: every embedding succeeds.
AllStructures(i) ==
    IF tasks[i].kind = "delete" THEN {}
    ELSE 1..Len(getCodeStructures(tasks[i].path, tasks[i].content))

\* The file watcher while no store operation and no embedding fails.
NextWatcherReliable ==
    \/ \E f \in Paths : onDidCreate(f)
    \/ \E f \in Paths : onDidChange(f)
    \/ \E f \in Paths : onDidDelete(f)
    \/ \E i \in Slots :
           /\ tasks[i].pc = "read"
           /\ \E c \in WatchedContents, now \in Times : RefreshReadDone(i, c, now)
    \/ \E i \in Slots : RefreshReadFailed(i)
    \/ \E i \in Slots : TableDeleteDone(i, AllStructures(i))
    \/ \E i \in Slots : TableAddDone(i)
    \/ \E i \in Slots : DeleteFromIndexDone(i)

\* The file watcher when its last notification is the deletion of a.pl: the
\* notifications before it start refreshFile calls, and once a.pl is gone a
\* readFile of it that has not yet returned fails.  No store operation fails.
NextDeleteLast ==
    \/ \E f \in Paths : events < MaxEvents - 1 /\ onDidChange(f)
    \/ events = MaxEvents - 1 /\ onDidDelete("a.pl")
    \/ \E i \in Slots :
           /\ tasks[i].pc = "read"
           /\ tasks[i].path # "a.pl" \/ events < MaxEvents
           /\ \E c \in WatchedContents, now \in Times : RefreshReadDone(i, c, now)
    \/ \E i \in Slots : RefreshReadFailed(i)
    \/ \E i \in Slots : TableDeleteDone(i, AllStructures(i))
    \/ \E i \in Slots : TableAddDone(i)
    \/ \E i \in Slots : DeleteFromIndexDone(i)

\* The indexWorkspace run.
NextWorkspace ==
    \/ NextStoreSteps
    \/ indexWorkspace
    \/ \E present \in SUBSET Paths : DiscoverDone(present)
    \/ \E k \in 1..Cardinality(Paths), c \in Contents, now \in Times :
           WorkspaceReadDone(k, c, now)
    \/ \E k \in 1..Cardinality(Paths) : WorkspaceReadFailed(k)
    \/ CancelRequest

\* Watcher notifications that arrive while no operation is in progress, so that
\* the refreshFile calls run one after the other.
NextSequential ==
    \/ NextStoreSteps
    \/ \E f \in Paths : (\A i \in Slots : ~Running(i)) /\ onDidChange(f)
    \/ \E i \in Slots :
           /\ tasks[i].pc = "read"
           /\ \E c \in Contents, now \in Times : RefreshReadDone(i, c, now)
    \/ \E i \in Slots : RefreshReadFailed(i)

NextIndexer == NextWatcher \/ NextWorkspace

(***************************************************************************)
(* SEMANTIC SEARCH                                                         *)
(***************************************************************************)
\* The texts searched for and the values of the limit parameter (default 5).
Queries == {<<"foo">>, <<"bar">>}
Limits  == {1, 5}

\* The distance of a stored vector from the query vector: nearest is smallest.
Distance(queryEmbedding, vector) == IF vector = queryEmbedding THEN 0 ELSE 1

\* The same search without its where clause: every row of the table competes.
NearestRowsUnfiltered(t, queryEmbedding, limit) ==
    LET near == SelectSeqBy(t, {n \in 1..Len(t) :
                    Distance(queryEmbedding, t[n].vector) = 0})
        far  == SelectSeqBy(t, {n \in 1..Len(t) :
                    Distance(queryEmbedding, t[n].vector) # 0})
        all  == near \o far
    IN  SubSeq(all, 1, IF Len(all) < limit THEN Len(all) ELSE limit)

\* table.search(queryEmbedding).where("path != ''", true).limit(limit).toArray():
\* the rows with a path, nearest first, rows at the same distance in insertion
\* order, cut at limit.
NearestRows(t, queryEmbedding, limit) ==
    LET near == SelectSeqBy(t, {n \in 1..Len(t) :
                    t[n].path # "" /\ Distance(queryEmbedding, t[n].vector) = 0})
        far  == SelectSeqBy(t, {n \in 1..Len(t) :
                    t[n].path # "" /\ Distance(queryEmbedding, t[n].vector) # 0})
        all  == near \o far
    IN  SubSeq(all, 1, IF Len(all) < limit THEN Len(all) ELSE limit)

\* searchResult.map(result => ({title, content, path, type, score: result._distance}))
FormatResults(rows, queryEmbedding) ==
    [n \in 1..Len(rows) |->
        [title |-> rows[n].title, content |-> rows[n].content, path |-> rows[n].path,
         type |-> rows[n].type, score |-> Distance(queryEmbedding, rows[n].vector)]]

\* No index operation and no search is in progress.
Quiet ==
    /\ \A i \in Slots : ~Running(i)
    /\ \A n \in 1..Len(searches) : searches[n].pc = "done"

\* findSimilarCode(text, limit) up to the first store await, in getAllRecords.
findSimilarCode(text, limit) ==
    /\ Len(searches) < MaxSearches
    /\ searches' = Append(searches, [text |-> text, limit |-> limit, pc |-> "records",
                                      failed |-> FALSE, outcome |-> "pending",
                                      result |-> <<>>])
    /\ UNCHANGED <<reqVars, checkVars, indexVars, parserVars, lateVars>>

\* A failure that leaves findSimilarCode by a rejected promise
SearchRejects(n) ==
    /\ searches' = [searches EXCEPT ![n].pc = "done", ![n].failed = TRUE,
                                     ![n].outcome = "rejected"]
    /\ UNCHANGED <<reqVars, checkVars, indexVars, parserVars, lateVars>>

\* A catch block of findSimilarCode or getAllRecords has logged: return []
SearchReturnsEmpty(n) ==
    /\ searches' = [searches EXCEPT ![n].pc = "done", ![n].failed = TRUE,
                                     ![n].outcome = "resolved", ![n].result = <<>>]
    /\ UNCHANGED <<reqVars, checkVars, indexVars, parserVars, lateVars>>

\* getAllRecords resolves with the rows of the table and the query is embedded;
\* with no row at all findSimilarCode returns [] at once.
AllRecordsDone(n) ==
    /\ n \in 1..Len(searches)
    /\ searches[n].pc = "records"
    /\ IF Len(table) = 0
       THEN searches' = [searches EXCEPT ![n].pc = "done", ![n].outcome = "resolved",
                                         ![n].result = <<>>]
       ELSE searches' = [searches EXCEPT ![n].pc = "search"]
    /\ UNCHANGED <<reqVars, checkVars, indexVars, parserVars, lateVars>>

\* The query of getAllRecords throws (getAllRecords returns [] and findSimilarCode
\* returns [] for an empty database), or the embedding of the query throws.
AllRecordsFailed(n) ==
    /\ n \in 1..Len(searches)
    /\ searches[n].pc = "records"
    /\ SearchReturnsEmpty(n)

\* The vector search resolves.
SearchDone(n) ==
    /\ n \in 1..Len(searches)
    /\ searches[n].pc = "search"
    /\ LET queryEmbedding == embed(searches[n].text)
       IN  searches' = [searches EXCEPT ![n].pc = "done", ![n].outcome = "resolved",
                           ![n].result = FormatResults(
                               NearestRows(table, queryEmbedding, searches[n].limit),
                               queryEmbedding)]
    /\ UNCHANGED <<reqVars, checkVars, indexVars, parserVars, lateVars>>

\* The vector search throws, or the table is unavailable.
SearchFailed(n) ==
    /\ n \in 1..Len(searches)
    /\ searches[n].pc = "search"
    /\ SearchReturnsEmpty(n)

InitSearch == searches = <<>>

NextSearch ==
    \/ \E text \in Queries, limit \in Limits : findSimilarCode(text, limit)
    \/ \E n \in 1..MaxSearches : AllRecordsDone(n)
    \/ \E n \in 1..MaxSearches : AllRecordsFailed(n)
    \/ \E n \in 1..MaxSearches : SearchDone(n)
    \/ \E n \in 1..MaxSearches : SearchFailed(n)

\* The vector store in use: updates, deletes and searches, each started while no
\* other is in progress; every embedding succeeds.
NextStore ==
    \/ \E i \in Slots : TableDeleteDone(i, AllStructures(i))
    \/ \E i \in Slots : TableDeleteFailed(i, AllStructures(i))
    \/ \E i \in Slots : TableAddDone(i)
    \/ \E i \in Slots : TableAddFailed(i)
    \/ Quiet /\ onDidChange("a.pl")
    \/ Quiet /\ onDidDelete("lib/b.pm")
    \/ \E i \in Slots, c \in WatchedContents : RefreshReadDone(i, c, clock + 1)
    \/ \E i \in Slots : DeleteFromIndexDone(i)
    \/ \E text \in Queries, limit \in Limits : Quiet /\ findSimilarCode(text, limit)
    \/ \E n \in 1..MaxSearches : AllRecordsDone(n)
    \/ \E n \in 1..MaxSearches : AllRecordsFailed(n)
    \/ \E n \in 1..MaxSearches : SearchDone(n)
    \/ \E n \in 1..MaxSearches : SearchFailed(n)

(***************************************************************************)
(* Specifications: one for each independent part of the extension.         *)
(***************************************************************************)
(***************************************************************************)
(* ENCLOSING BLOCK (src/collectors/contextCollector.js)                    *)
(***************************************************************************)
\* findNodeAtOffset: the nodes from `node` down to the node found, so that the
\* parent of a node is the one before it; <<>> stands for null.  The end of a
\* node counts as inside it, and the first child that holds the offset wins.
RECURSIVE findNodeAtOffset(_, _)
RECURSIVE FindInChildren(_, _)
findNodeAtOffset(node, offset) ==
    IF offset < node.startIndex \/ offset > node.endIndex THEN <<>>
    ELSE <<node>> \o FindInChildren(node.children, offset)

FindInChildren(children, offset) ==
    IF children = <<>> THEN <<>>
    ELSE LET found == findNodeAtOffset(Head(children), offset)
         IN  IF found # <<>> THEN found ELSE FindInChildren(Tail(children), offset)

Priority ==
    <<"function_definition", "anonymous_function",
      "while_statement", "until_statement", "for_statement_1", "for_statement_2",
      "if_statement", "elsif_clause", "else_clause", "unless_statement",
      "block", "standalone_block", "special_block", "continue",
      "package_statement",
      "binary_expression", "variable_declaration">>

Reverse(s) == [i \in 1..Len(s) |-> s[Len(s) + 1 - i]]

\* Ancestors that skip the parent of a comment.
AncestorsAboveParent(path, offset) ==
    LET chain == IF path[Len(path)].type = "comment"
                 THEN SubSeq(path, 1, Len(path) - 2) ELSE path
    IN  SelectSeq(Reverse(chain),
                  LAMBDA cur : cur.startIndex <= offset /\ offset < cur.endIndex)

\* Steps 2 and 3 of getCurrentBlock: from the node at the cursor, or from its
\* parent when it is a comment, up to the root, the nodes with
\* startIndex <= offset < endIndex, innermost first.
Ancestors(path, offset) ==
    LET chain == IF path[Len(path)].type = "comment"
                 THEN SubSeq(path, 1, Len(path) - 1) ELSE path
    IN  SelectSeq(Reverse(chain),
                  LAMBDA cur : cur.startIndex <= offset /\ offset < cur.endIndex)

\* A choice by proximity: the innermost ancestor whose type is in the list.
PickNearest(ancestors) ==
    LET listed == {n \in 1..Len(ancestors) :
                      \E k \in 1..Len(Priority) : ancestors[n].type = Priority[k]}
    IN  IF listed = {} THEN <<>>
        ELSE <<ancestors[CHOOSE n \in listed : \A m \in listed : n <= m]>>

\* Step 4: for the first type of the priority list that some ancestor has, the
\* innermost ancestor of that type; <<>> when no type matches.
PickByPriority(ancestors) ==
    LET hits == {k \in 1..Len(Priority) :
                    \E n \in 1..Len(ancestors) : ancestors[n].type = Priority[k]}
    IN  IF hits = {} THEN <<>>
        ELSE LET k == CHOOSE h \in hits : \A g \in hits : h <= g
                 of == {n \in 1..Len(ancestors) : ancestors[n].type = Priority[k]}
             IN  <<ancestors[CHOOSE n \in of : \A m \in of : n <= m]>>

\* What a getCurrentBlock call gives back: the text of a node (with the type of
\* that node), the string "file_scope", null, or a TypeError.
BlockText(fileText, node) ==
    [kind |-> "text", type |-> node.type,
     text |-> Substring(fileText, node.startIndex, node.endIndex)]
FileScope == [kind |-> "file_scope", type |-> "", text |-> <<>>]
Null      == [kind |-> "null", type |-> "", text |-> <<>>]
TypeError == [kind |-> "TypeError", type |-> "", text |-> <<>>]

\* ContextCollector.getCurrentBlock for the value p of getParser(), the tree of the
\* document text and the offset of the position.
getCurrentBlock(p, rootNode, fileText, offset) ==
    IF p = NoParser THEN Null
    ELSE LET path == findNodeAtOffset(rootNode, offset)
         IN  IF path = <<>> THEN TypeError
             ELSE LET found == PickByPriority(Ancestors(path, offset))
                  IN  IF found = <<>> THEN FileScope ELSE BlockText(fileText, found[1])

NoBlockQuery ==
    [called |-> FALSE, program |-> <<>>, offset |-> 0, ready |-> FALSE,
     result |-> [kind |-> "", type |-> "", text |-> <<>>]]

\* The observed getCurrentBlock call of the running extension: the document holds
\* the text of a program and the position is at an offset of that text.
GetCurrentBlock(program, offset) ==
    /\ activated /\ ~blockQuery.called
    /\ blockQuery' =
           [called |-> TRUE, program |-> program, offset |-> offset,
            ready |-> perlParser # NoParser,
            result |-> getCurrentBlock(perlParser, RootNode(program), Unparse(program),
                                       offset)]
    /\ UNCHANGED <<perlParser, initialized, parser, activated, extraction>>
    /\ UNCHANGED <<reqVars, checkVars, indexVars, searchVars, lateVars>>

(***************************************************************************)
(* PARSER INITIALISATION AND STRUCTURE EXTRACTION                          *)
(***************************************************************************)
\* The files whose structures are extracted.
ExtractPaths == {"lib/b.pm"}

NoExtraction ==
    [called |-> FALSE, version |-> "", filepath |-> "", contents |-> <<>>,
     isProgram |-> FALSE, ready |-> FALSE, strategy |-> "", failed |-> FALSE, result |-> <<>>]

\* initTreeSitter, called by activate before anything else uses the parser: returns the parser when already
\* initialized; otherwise builds it, and a failure of that leaves the module as it
\* was.  The `parser` that codeStructureIndex.js read at load is not written.
initTreeSitter(ok) ==
    /\ IF ~initialized /\ ok
       THEN perlParser' = PerlParser /\ initialized' = TRUE
       ELSE UNCHANGED <<perlParser, initialized>>
    /\ activated' = TRUE
    /\ UNCHANGED <<parser, extraction, blockQuery>>
    /\ UNCHANGED <<reqVars, checkVars, indexVars, searchVars, lateVars>>

\* The observed getCodeStructures call of the running extension, on the text of a
\* program.
ExtractStructures(filepath, program) ==
    LET contents == Unparse(program)
    IN  /\ activated /\ ~extraction.called
        /\ extraction' =
               [called |-> TRUE, version |-> "current", filepath |-> filepath,
                contents |-> contents, isProgram |-> TRUE,
                ready |-> initialized /\ perlParser # NoParser,
                strategy |-> IF parser # NoParser THEN "tree" ELSE "regex",
                failed |-> FALSE,
                result |-> getCodeStructures(filepath, contents)]
        /\ UNCHANGED <<perlParser, initialized, parser, activated, blockQuery>>
        /\ UNCHANGED <<reqVars, checkVars, indexVars, searchVars, lateVars>>

\* getCodeStructures as a function of what it finds: the value p of `parser`,
\* whether parser.parse throws, the path and the text of a program.
ExtractProgram(version, p, throws, filepath, program) ==
    LET contents == Unparse(program)
        parsed == IF throws THEN ParseThrows ELSE Parsed(program)
    IN  /\ ~extraction.called
        /\ extraction' =
               [called |-> TRUE, version |-> version, filepath |-> filepath,
                contents |-> contents, isProgram |-> TRUE,
                ready |-> p # NoParser,
                strategy |-> IF p # NoParser THEN "tree" ELSE "regex",
                failed |-> p # NoParser /\ throws,
                result |-> IF version = "current"
                           THEN getCodeStructuresWith(p, parsed, filepath, contents)
                           ELSE getCodeStructuresEarlierWith(p, parsed, filepath,
                                                             contents)]
        /\ UNCHANGED <<perlParser, initialized, parser, activated, blockQuery>>
        /\ UNCHANGED <<reqVars, checkVars, indexVars, searchVars, lateVars>>

\* getCodeStructures without a parser on a text that need not be a program.
ExtractRawText(version, filepath, contents) ==
    /\ ~extraction.called
    /\ extraction' =
           [called |-> TRUE, version |-> version, filepath |-> filepath,
            contents |-> contents, isProgram |-> FALSE, ready |-> FALSE,
            strategy |-> "regex",
            failed |-> FALSE,
            result |-> IF version = "current"
                       THEN getCodeStructuresWith(NoParser, ParseThrows, filepath,
                                                  contents)
                       ELSE getCodeStructuresEarlierWith(NoParser, ParseThrows,
                                                         filepath, contents)]
    /\ UNCHANGED <<perlParser, initialized, parser, activated, blockQuery>>
    /\ UNCHANGED <<reqVars, checkVars, indexVars, searchVars, lateVars>>

\* Module load: treeSitter.js starts without a parser, and codeStructureIndex.js,
\* required by extension.js before activate runs, reads getParser() then.
InitParser ==
    /\ perlParser = NoParser
    /\ initialized = FALSE
    /\ parser = perlParser
    /\ activated = FALSE
    /\ extraction = NoExtraction
    /\ blockQuery = NoBlockQuery

\* One getCodeStructures call is observed in a behaviour.
NextParser ==
    \/ \E ok \in BOOLEAN : initTreeSitter(ok)
    \/ /\ ~extraction.called
       /\ \E filepath \in ExtractPaths, program \in ExtractorPrograms :
              ExtractStructures(filepath, program)

NextBlock ==
    \/ \E ok \in BOOLEAN : initTreeSitter(ok)
    \/ /\ ~blockQuery.called
       /\ \E program \in BlockPrograms :
              \E offset \in 0..Len(Unparse(program)) : GetCurrentBlock(program, offset)

NextExtractor ==
    \/ /\ ~extraction.called
       /\ \E version \in {"current", "earlier"}, p \in {NoParser, PerlParser},
             throws \in BOOLEAN, filepath \in ExtractPaths,
             program \in ExtractorPrograms :
              /\ p = NoParser => ~throws
              /\ ExtractProgram(version, p, throws, filepath, program)
    \/ /\ ~extraction.called
       /\ \E version \in {"current", "earlier"}, filepath \in ExtractPaths,
             contents \in RawTexts :
              ExtractRawText(version, filepath, contents)

(***************************************************************************)
(* CODE AROUND THE CURSOR (src/collectors/contextCollector.js)             *)
(***************************************************************************)
\* A TextDocument is its lines; line l (counted from 0) is made of the letter
\* of its number, so that a text shows which lines it is made of.
Letter(l) == <<"a", "b", "c", "d", "e", "f">>[l + 1]
Line(l, length) == [c \in 1..length |-> Letter(l)]
AroundDocuments ==
    UNION {{[l \in 1..n |-> Line(l - 1, lengths[l])] :
                lengths \in [1..n -> 0..MaxLineLen]} : n \in 1..MaxLines}

\* The positions inside the document: document.validatePosition leaves them as
\* they are.
PositionsIn(document) ==
    {[line |-> l, character |-> c] :
         l \in 0..(Len(document) - 1), c \in 0..MaxLineLen} \cap
    {p \in [line : 0..MaxLines, character : 0..MaxLineLen] :
         p.line < Len(document) /\ p.character <= Len(document[p.line + 1])}

\* document.getText(): the lines joined by "\n"
RECURSIVE FullText(_)
FullText(document) ==
    IF Len(document) = 1 THEN document[1]
    ELSE FullText(SubSeq(document, 1, Len(document) - 1)) \o <<"\n">>
             \o document[Len(document)]

\* document.offsetAt(position), for a position of the document
RECURSIVE offsetAt(_, _)
offsetAt(document, position) ==
    IF position.line = 0 THEN position.character
    ELSE Len(document[1]) + 1
             + offsetAt(Tail(document), [position EXCEPT !.line = @ - 1])

\* new vscode.Range(start, end) puts the earlier position first;
\* document.getText(range) is the text between the two.
getText(document, start, end) ==
    LET from == offsetAt(document, start)
        to   == offsetAt(document, end)
    IN  IF from <= to THEN SubSeq(FullText(document), from + 1, to)
        ELSE SubSeq(FullText(document), to + 1, from)

Threw == [kind |-> "threw", fullPrefix |-> <<>>, fullSuffix |-> <<>>,
          textAroundCursor |-> <<>>]

\* document.lineAt(line) throws for a line that is not in the document, and
\* new vscode.Position throws for a negative line.
lineAtThrows(document, line) == line < 0 \/ line >= Len(document)

\* getCodeAround with endPosition computed from the line before the cursor
\* also on line 0
getCodeAroundNoFirstLineCase(document, position, linesBefore, linesAfter) ==
    LET Max(a, b) == IF a > b THEN a ELSE b
        Min(a, b) == IF a < b THEN a ELSE b
        startLine == Max(0, position.line - linesBefore)
        endLine   == Min(Len(document) - 1, position.line + linesAfter)
    IN  IF lineAtThrows(document, position.line - 1) \/ lineAtThrows(document, endLine)
        THEN Threw
        ELSE LET endPosition == [line |-> position.line - 1,
                                 character |-> Len(document[position.line])]
                 prefix == getText(document, [line |-> startLine, character |-> 0],
                                   endPosition)
                 suffix == getText(document, position,
                                   [line |-> endLine,
                                    character |-> Len(document[endLine + 1])])
             IN  [kind |-> "value", fullPrefix |-> prefix, fullSuffix |-> suffix,
                  textAroundCursor |-> prefix \o suffix]

\* getCodeAround(document, position, linesBefore, linesAfter)
getCodeAround(document, position, linesBefore, linesAfter) ==
    LET Max(a, b) == IF a > b THEN a ELSE b
        Min(a, b) == IF a < b THEN a ELSE b
        startLine == Max(0, position.line - linesBefore)
        endLine   == Min(Len(document) - 1, position.line + linesAfter)
    IN  IF \/ position.line > 0 /\ lineAtThrows(document, position.line - 1)
           \/ lineAtThrows(document, endLine)
        THEN Threw
        ELSE LET endPosition ==
                     IF position.line > 0
                     THEN [line |-> position.line - 1,
                           character |-> Len(document[position.line])]
                     ELSE [line |-> 0, character |-> 0]
                 prefix == getText(document, [line |-> startLine, character |-> 0],
                                   endPosition)
                 suffix == getText(document, position,
                                   [line |-> endLine,
                                    character |-> Len(document[endLine + 1])])
             IN  [kind |-> "value", fullPrefix |-> prefix, fullSuffix |-> suffix,
                  textAroundCursor |-> prefix \o suffix]

\* The observed call: every caller leaves linesBefore and linesAfter at their
\* default, 15; the model draws them from 1..MaxAround.
GetCodeAround(document, position, linesBefore, linesAfter) ==
    /\ probe.fn = "none"
    /\ probe' = [fn |-> "getCodeAround", document |-> document, position |-> position,
                 linesBefore |-> linesBefore, linesAfter |-> linesAfter,
                 result |-> getCodeAround(document, position, linesBefore, linesAfter)]
    /\ UNCHANGED <<reqVars, checkVars, indexVars, searchVars, parserVars, context,
                   connection, uiVars>>

NextAround ==
    /\ probe.fn = "none"
    /\ \E document \in AroundDocuments, linesBefore, linesAfter \in 1..MaxAround :
           \E position \in PositionsIn(document) :
               GetCodeAround(document, position, linesBefore, linesAfter)

(***************************************************************************)
(* IMPORT DEFINITIONS (src/collectors/importDefinitionAnalyzer.js)         *)
(***************************************************************************)
\* The lines of an imported file, each a sequence of lexemes.
ModuleLines ==
    {<<"sub", "f", "{">>, <<"sub", "f", "{", "1", "}">>, <<"sub", "g", "{", "2", "}">>,
     <<"my", "$f", "=", "sub", "{">>, <<"if", "{">>, <<"}">>, <<"1">>}
Symbols == {"f", "g"}

\* lines.join('\n')
RECURSIVE JoinLines(_)
JoinLines(lines) ==
    IF lines = <<>> THEN <<>>
    ELSE IF Len(lines) = 1 THEN lines[1]
    ELSE lines[1] \o <<"\n">> \o JoinLines(Tail(lines))

\* content.split('\n')
RECURSIVE SplitLines(_)
SplitLines(content) ==
    IF \A k \in 1..Len(content) : content[k] # "\n" THEN <<content>>
    ELSE LET k == CHOOSE k \in 1..Len(content) :
                      content[k] = "\n" /\ \A m \in 1..(k - 1) : content[m] # "\n"
         IN  <<SubSeq(content, 1, k - 1)>>
                 \o SplitLines(SubSeq(content, k + 1, Len(content)))

\* The contents of an imported file.
ModuleContents ==
    UNION {{JoinLines(lines) : lines \in [1..n -> ModuleLines]} : n \in 1..MaxModuleLines}

\* (line.match(/\{/g) || []).length, and the same for "}"
CountOf(line, lexeme) == Cardinality({k \in 1..Len(line) : line[k] = lexeme})

\* One of subRegexPatterns matches the line (whitespace is between lexemes):
\* sub name {, sub name(...) {, *name = sub {, my $name = sub {
DeclarationMatches(line, symbol) ==
    \E k \in 1..Len(line) :
        \/ /\ k + 2 <= Len(line)
           /\ line[k] = "sub" /\ line[k + 1] = symbol /\ line[k + 2] = "{"
        \/ /\ k + 2 <= Len(line)
           /\ line[k] = "sub" /\ line[k + 1] = symbol \o "()" /\ line[k + 2] = "{"
        \/ /\ k + 3 <= Len(line)
           /\ line[k] = "*" \o symbol /\ line[k + 1] = "="
           /\ line[k + 2] = "sub" /\ line[k + 3] = "{"
        \/ /\ k + 4 <= Len(line)
           /\ line[k] = "my" /\ line[k + 1] = "$" \o symbol /\ line[k + 2] = "="
           /\ line[k + 3] = "sub" /\ line[k + 4] = "{"

\* The inner loop of findSymbolInFile at line j (0-based), entered with the
\* count of the lines i..j-1: the lines i..j at the first j > i where the count
\* is zero, the empty text when there is none.
RECURSIVE CaptureContent(_, _, _, _)
CaptureContent(lines, i, j, bracketCount) ==
    IF j >= Len(lines) THEN <<>>
    ELSE LET count == bracketCount + CountOf(lines[j + 1], "{")
                          - CountOf(lines[j + 1], "}")
         IN  IF count = 0 /\ j > i THEN JoinLines(SubSeq(lines, i + 1, j + 1))
             ELSE CaptureContent(lines, i, j + 1, count)

NoSymbol == [found |-> FALSE, content |-> <<>>, line |-> -1]

\* findSymbolInFile(moduleDef, symbol) for a moduleDef with the given content
findSymbolInFile(content, symbol) ==
    IF content = <<>> THEN NoSymbol
    ELSE LET lines == SplitLines(content)
             matching == {i \in 0..(Len(lines) - 1) :
                              DeclarationMatches(lines[i + 1], symbol)}
         IN  IF matching = {} THEN NoSymbol
             ELSE LET symbolLine == CHOOSE i \in matching : \A m \in matching : i <= m
                      symbolContent == CaptureContent(lines, symbolLine, symbolLine, 0)
                  IN  [found |-> TRUE,
                       content |-> IF symbolContent # <<>> THEN symbolContent
                                   ELSE <<"sub", symbol, "{", "...", "}">>,
                       line |-> symbolLine]

\* The observed call of findSymbolInFile.
FindSymbolInFile(content, symbol) ==
    /\ probe.fn = "none"
    /\ probe' = [fn |-> "findSymbolInFile", content |-> content, symbol |-> symbol,
                 result |-> findSymbolInFile(content, symbol)]
    /\ UNCHANGED <<reqVars, checkVars, indexVars, searchVars, parserVars, context,
                   connection, uiVars>>

NextSymbol ==
    /\ probe.fn = "none"
    /\ \E content \in ModuleContents, symbol \in Symbols :
           FindSymbolInFile(content, symbol)

\* What extractImports returns: the imported names in the order of their first
\* use or require statement, each with its list of symbols.
ImportNames == {"A", "A::b", "f.pl"}
SymbolLists == {<<>>, <<"b">>, <<"b", "$x">>}
ImportLists ==
    UNION {{imports \in [1..n -> [name : ImportNames, symbols : SymbolLists]] :
                \A k, m \in 1..n : k # m => imports[k].name # imports[m].name} :
           n \in 1..MaxImports}

\* What findModuleByPath or findFileByPath resolves with for each name: the
\* content of the file found, or Missing (null).
Missing == <<"null">>
FoundContents == {<<"sub", "b", "{", "\n", "}">>, <<"1">>}
FileSystems == [ImportNames -> FoundContents \cup {Missing}]

\* /^[A-Za-z_][A-Za-z0-9_]*$/.test(symbol), no "/" and no "$"
ValidSymbol(symbol) == symbol \in {"b", "f", "g"}

\* `${importName}::${symbol}`
FullName(importName, symbol) == importName \o "::" \o symbol

\* results[key] = list
Assign(results, key, list) ==
    [k \in DOMAIN results \cup {key} |-> IF k = key THEN list ELSE results[k]]

\* The loop over the symbols of one import, from symbol k on.
RECURSIVE ProcessSymbols(_, _, _, _, _)
ProcessSymbols(results, importName, moduleDef, symbols, k) ==
    IF k > Len(symbols) THEN results
    ELSE IF ~ValidSymbol(symbols[k])
    THEN ProcessSymbols(results, importName, moduleDef, symbols, k + 1)
    ELSE LET fullName == FullName(importName, symbols[k])
             symbolDef == findSymbolInFile(moduleDef, symbols[k])
             entry == IF moduleDef # Missing /\ symbolDef.found
                      THEN <<[type |-> "subroutine", content |-> symbolDef.content]>>
                      ELSE <<>>
         IN  ProcessSymbols(Assign(results, fullName, entry), importName, moduleDef,
                            symbols, k + 1)

\* The entry of the import itself: the file that was found when no symbol is
\* imported, none when symbols are, and the empty list when no file was found.
ImportEntry(results, import, moduleDef) ==
    IF moduleDef # Missing
    THEN IF Len(import.symbols) = 0
         THEN Assign(results, import.name, <<[type |-> "file", content |-> moduleDef]>>)
         ELSE results
    ELSE Assign(results, import.name, <<>>)

\* getImportDefinitions: the loop over the imports, from import k on.
RECURSIVE getImportDefinitions(_, _, _, _)
getImportDefinitions(results, imports, files, k) ==
    IF k > Len(imports) THEN results
    ELSE LET moduleDef == files[imports[k].name]
         IN  getImportDefinitions(
                 ProcessSymbols(ImportEntry(results, imports[k], moduleDef),
                                imports[k].name, moduleDef, imports[k].symbols, 1),
                 imports, files, k + 1)

\* The observed call of getImportDefinitions.
GetImportDefinitions(imports, files) ==
    /\ probe.fn = "none"
    /\ probe' = [fn |-> "getImportDefinitions", imports |-> imports, files |-> files,
                 result |-> getImportDefinitions([key \in {} |-> <<>>], imports, files, 1)]
    /\ UNCHANGED <<reqVars, checkVars, indexVars, searchVars, parserVars, context,
                   connection, uiVars>>

NextImports ==
    /\ probe.fn = "none"
    /\ \E imports \in ImportLists, files \in FileSystems :
           GetImportDefinitions(imports, files)

\* Paths are sequences of segments.  The workspace root, the files the user may
\* be editing (NoEditor: there is no active editor), the file asked for, and the
\* relative paths glob(`**/${filePath}`) can return.
RootPath == <<"ws">>
NoEditor == <<>>
CurrentFiles == {NoEditor, <<"ws", "main.pl">>, <<"ws", "lib", "main.pl">>}
FilePaths == {<<"functions.pl">>}
Globbed(filePath) == {filePath, <<"lib">> \o filePath, <<"t">> \o filePath}
GlobResults(filePath) ==
    UNION {{files \in [1..n -> Globbed(filePath)] :
                \A k, m \in 1..n : k # m => files[k] # files[m]} : n \in 0..MaxGlob}

\* What findFileByPath returns when it returns null.
NoFile == [filepath |-> <<>>, content |-> <<>>]

\* path.join and path.dirname
join(dir, relative) == dir \o relative
dirname(file) == SubSeq(file, 1, Len(file) - 1)

\* findFileByPath(filePath) up to `await glob(...)`; without a workspace folder
\* it returns null at once.
findFileByPath(filePath, hasWorkspace, currentFilePath) ==
    /\ probe.fn = "none"
    /\ probe' = [fn |-> "findFileByPath", filePath |-> filePath,
                 pc |-> IF hasWorkspace THEN "glob" ELSE "done",
                 currentDir |-> IF currentFilePath # NoEditor THEN dirname(currentFilePath)
                                ELSE RootPath,
                 searchPaths |-> <<>>, reads |-> <<>>, result |-> NoFile]
    /\ UNCHANGED <<reqVars, checkVars, indexVars, searchVars, parserVars, context,
                   connection, uiVars>>

\* glob resolves with files: searchPaths is built and the loop reads its first
\* element.
GlobDone(files) ==
    /\ probe.fn = "findFileByPath" /\ probe.pc = "glob"
    /\ probe' = [probe EXCEPT !.pc = "read",
                     !.searchPaths = <<join(probe.currentDir, probe.filePath),
                                       join(RootPath, probe.filePath)>>
                                     \o [k \in 1..Len(files) |-> join(RootPath, files[k])]]
    /\ UNCHANGED <<reqVars, checkVars, indexVars, searchVars, parserVars, context,
                   connection, uiVars>>

\* fs.readFile resolves, and the loop goes on to the next path all the same;
\* the last file read is returned.
CandidateReadDoneKeepReading(content) ==
    LET fullPath == probe.searchPaths[Len(probe.reads) + 1]
    IN  /\ probe.fn = "findFileByPath" /\ probe.pc = "read"
        /\ probe' = [probe EXCEPT
                         !.reads = Append(@, [path |-> fullPath, ok |-> TRUE]),
                         !.result = [filepath |-> fullPath, content |-> content],
                         !.pc = IF Len(probe.reads) + 1 < Len(probe.searchPaths)
                                THEN "read" ELSE "done"]
        /\ UNCHANGED <<reqVars, checkVars, indexVars, searchVars, parserVars, context,
                       connection, uiVars>>

\* fs.readFile of the path the loop is at resolves with content: return it.
CandidateReadDone(content) ==
    LET fullPath == probe.searchPaths[Len(probe.reads) + 1]
    IN  /\ probe.fn = "findFileByPath" /\ probe.pc = "read"
        /\ probe' = [probe EXCEPT
                         !.reads = Append(@, [path |-> fullPath, ok |-> TRUE]),
                         !.result = [filepath |-> fullPath, content |-> content],
                         !.pc = "done"]
        /\ UNCHANGED <<reqVars, checkVars, indexVars, searchVars, parserVars, context,
                       connection, uiVars>>

\* fs.readFile of the path the loop is at rejects: logged, the loop reads the
\* next path, or returns null after the last.
CandidateReadFailed ==
    LET fullPath == probe.searchPaths[Len(probe.reads) + 1]
    IN  /\ probe.fn = "findFileByPath" /\ probe.pc = "read"
        /\ probe' = [probe EXCEPT
                         !.reads = Append(@, [path |-> fullPath, ok |-> FALSE]),
                         !.pc = IF Len(probe.reads) + 1 < Len(probe.searchPaths)
                                THEN "read" ELSE "done"]
        /\ UNCHANGED <<reqVars, checkVars, indexVars, searchVars, parserVars, context,
                       connection, uiVars>>

NextFile ==
    \/ /\ probe.fn = "none"
       /\ \E filePath \in FilePaths, hasWorkspace \in BOOLEAN,
             currentFilePath \in CurrentFiles :
              findFileByPath(filePath, hasWorkspace, currentFilePath)
    \/ /\ probe.fn = "findFileByPath"
       /\ \E files \in GlobResults(probe.filePath) : GlobDone(files)
    \/ \E content \in FoundContents : CandidateReadDone(content)
    \/ CandidateReadFailed

(***************************************************************************)
(* STORE CONNECTION (src/indexers/vectorIndex.js)                          *)
(***************************************************************************)
\* The state the constructor of PerlVectorIndex leaves: db and table are null
\* and its _initDb call, which nothing awaits, is at `await lancedb.connect`.
\* calls holds the position of every _initDb call; connects counts the
\* connections made, opens and creates the db.openTable and db.createTable calls.
Constructed ==
    [db |-> "null", table |-> "null", calls |-> <<"connect">>, operations |-> 0,
     connects |-> 0, opens |-> 0, creates |-> 0, created |-> FALSE]

\* The table is in the database directory: a previous session left it there, or
\* a createTable call of this session has made it.
OnDisk == table # <<Placeholder>> \/ connection.created

\* update, delete, getAllRecords or findSimilarCode is called: `if (!this.table)
\* await this._initDb()`, a new _initDb call up to `await lancedb.connect`.
StoreOperation ==
    /\ connection.operations < MaxOperations
    /\ connection' =
           IF connection.table = "null"
           THEN [connection EXCEPT !.operations = @ + 1,
                                   !.calls = Append(@, "connect")]
           ELSE [connection EXCEPT !.operations = @ + 1]
    /\ UNCHANGED <<reqVars, checkVars, indexVars, searchVars, parserVars, context, probe, uiVars>>

\* lancedb.connect of _initDb call c resolves: this.db is set, db.tableNames()
\* is called.
ConnectDone(c) ==
    /\ c \in 1..Len(connection.calls)
    /\ connection.calls[c] = "connect"
    /\ connection' = [connection EXCEPT !.db = "db", !.connects = @ + 1,
                                        !.calls[c] = "tableNames"]
    /\ UNCHANGED <<reqVars, checkVars, indexVars, searchVars, parserVars, context, probe, uiVars>>

\* lancedb.connect rejects: the catch of _initDb logs, the call is over.
ConnectFailed(c) ==
    /\ c \in 1..Len(connection.calls)
    /\ connection.calls[c] = "connect"
    /\ connection' = [connection EXCEPT !.calls[c] = "done"]
    /\ UNCHANGED <<reqVars, checkVars, indexVars, searchVars, parserVars, context, probe, uiVars>>

\* db.tableNames() resolves: openTable when the table is listed, createTable
\* with the placeholder row when it is not.
TableNamesDone(c) ==
    /\ c \in 1..Len(connection.calls)
    /\ connection.calls[c] = "tableNames"
    /\ connection' =
           IF OnDisk
           THEN [connection EXCEPT !.opens = @ + 1, !.calls[c] = "open"]
           ELSE [connection EXCEPT !.creates = @ + 1, !.calls[c] = "create"]
    /\ UNCHANGED <<reqVars, checkVars, indexVars, searchVars, parserVars, context, probe, uiVars>>

\* db.openTable resolves: this.table is set (schema and countRows are logged).
OpenTableDone(c) ==
    /\ c \in 1..Len(connection.calls)
    /\ connection.calls[c] = "open"
    /\ connection' = [connection EXCEPT !.table = "table", !.calls[c] = "done"]
    /\ UNCHANGED <<reqVars, checkVars, indexVars, searchVars, parserVars, context, probe, uiVars>>

\* db.createTable settles: it makes the table and this.table is set, or it
\* rejects because the table is there by now and the catch of _initDb logs.
CreateTableDone(c) ==
    /\ c \in 1..Len(connection.calls)
    /\ connection.calls[c] = "create"
    /\ connection' =
           IF OnDisk THEN [connection EXCEPT !.calls[c] = "done"]
           ELSE [connection EXCEPT !.table = "table", !.created = TRUE,
                                   !.calls[c] = "done"]
    /\ UNCHANGED <<reqVars, checkVars, indexVars, searchVars, parserVars, context, probe, uiVars>>

NextConnection ==
    \/ StoreOperation
    \/ \E c \in 1..(MaxOperations + 1) : ConnectDone(c)
    \/ \E c \in 1..(MaxOperations + 1) : ConnectFailed(c)
    \/ \E c \in 1..(MaxOperations + 1) : TableNamesDone(c)
    \/ \E c \in 1..(MaxOperations + 1) : OpenTableDone(c)
    \/ \E c \in 1..(MaxOperations + 1) : CreateTableDone(c)

(***************************************************************************)
(* CONTEXT ASSEMBLY (src/extension.js)                                     *)
(***************************************************************************)
\* The collector calls of generateContextForComments in the order of the
\* code: those of the outer try block, then those of the inner one.
BasicSteps == <<"getCodeAround", "getCurrentBlock", "extractImports",
                "findUsedSymbols", "findVariableDefinitions">>
AdvancedSteps == <<"generateTreeMap", "getImportDefinitions", "findRelevantCode">>
Steps == BasicSteps \o AdvancedSteps

\* The fields of ctxPayload as it is built, and the field each advanced
\* collector adds.
BasicFields == {"codePrefix", "codeSuffix", "currentBlock", "imports", "usedModules",
                "variableDefinitions", "fileName"}
AdvancedField(step) ==
    CASE step = "generateTreeMap"      -> "projectStructure"
      [] step = "getImportDefinitions" -> "importDefinitions"
      [] step = "findRelevantCode"     -> "relatedCodeStructures"

\* err.message of what a collector throws
Causes == {"ENOENT", "TypeError"}

\* new Error(`Failed to generate context: ${err.message}`), without the cause
ContextErrorWithoutCause(cause) == "Failed to generate context"

\* new Error(`Failed to generate context: ${err.message}`)
ContextError(cause) == "Failed to generate context: " \o cause

\* fetchCodeWithDeduplication(comment, doc, pos) for a key not in flight: the
\* async function runs into generateContextForComments, up to its first
\* collector call; hasIndexer tells whether codebaseIndexer is set.
GenerateContextForComments(hasIndexer) ==
    /\ context.pc = "idle"
    /\ context' = [pc |-> "collect", step |-> 1, hasIndexer |-> hasIndexer,
                   payload |-> {}, threw |-> "", cause |-> "", outcome |-> "pending",
                   error |-> "", posted |-> FALSE, shown |-> "", result |-> "pending"]
    /\ UNCHANGED <<reqVars, checkVars, indexVars, searchVars, parserVars, connection,
                   probe, uiVars>>

\* The context is returned: `await api.post('/commentCode/', {message, context})`
ReturnPayload(c, payload) ==
    [c EXCEPT !.payload = payload, !.outcome = "resolved", !.pc = "post",
              !.posted = TRUE]

\* The steps left after step n: findRelevantCode is called only when
\* codebaseIndexer is set.
HasNext(n) ==
    /\ n < Len(Steps)
    /\ Steps[n + 1] = "findRelevantCode" => context.hasIndexer

\* The collector call in progress returns.  After the last basic one
\* ctxPayload is built with the basic fields; an advanced one adds its field;
\* after the last one the payload is returned.
CollectorReturns ==
    /\ context.pc = "collect"
    /\ LET n == context.step
           payload == IF n = Len(BasicSteps) THEN BasicFields
                      ELSE IF n > Len(BasicSteps)
                      THEN context.payload \cup {AdvancedField(Steps[n])}
                      ELSE context.payload
       IN  context' = IF HasNext(n)
                      THEN [context EXCEPT !.step = n + 1, !.payload = payload]
                      ELSE ReturnPayload(context, payload)
    /\ UNCHANGED <<reqVars, checkVars, indexVars, searchVars, parserVars, connection,
                   probe, uiVars>>

\* Every throw reaches the outer catch: the context is rejected.
CollectorThrowsRejects(cause) ==
    /\ context.pc = "collect"
    /\ context' = [context EXCEPT !.threw = Steps[context.step], !.cause = cause,
                                  !.outcome = "rejected", !.pc = "catch",
                                  !.error = ContextError(cause)]
    /\ UNCHANGED <<reqVars, checkVars, indexVars, searchVars, parserVars, connection,
                   probe, uiVars>>

\* The collector call in progress throws an error with message cause.  In the
\* outer try block: logError, throw new Error(...), which the catch of
\* fetchCodeWithDeduplication receives.  In the inner one: logError, and the
\* payload is returned as it is.
CollectorThrows(cause) ==
    /\ context.pc = "collect"
    /\ context' =
           IF context.step <= Len(BasicSteps)
           THEN [context EXCEPT !.threw = Steps[context.step], !.cause = cause,
                                !.outcome = "rejected", !.pc = "catch",
                                !.error = ContextError(cause)]
           ELSE ReturnPayload([context EXCEPT !.threw = Steps[context.step],
                                              !.cause = cause],
                              context.payload)
    /\ UNCHANGED <<reqVars, checkVars, indexVars, searchVars, parserVars, connection,
                   probe, uiVars>>

\* The catch of fetchCodeWithDeduplication: logError,
\* showErrorMessage(`Failed to generate code: ${err.message}`), return null.
FetchCatch ==
    /\ context.pc = "catch"
    /\ context' = [context EXCEPT !.pc = "done", !.result = "null",
                                  !.shown = "Failed to generate code: " \o context.error]
    /\ UNCHANGED <<reqVars, checkVars, indexVars, searchVars, parserVars, connection,
                   probe, uiVars>>

\* api.post resolves: return response.data.code
ContextPostDone(code) ==
    /\ context.pc = "post"
    /\ context' = [context EXCEPT !.pc = "done", !.result = code]
    /\ UNCHANGED <<reqVars, checkVars, indexVars, searchVars, parserVars, connection,
                   probe, uiVars>>

\* api.post rejects with message cause: the same catch.
ContextPostFailed(cause) ==
    /\ context.pc = "post"
    /\ context' = [context EXCEPT !.pc = "done", !.result = "null",
                                  !.shown = "Failed to generate code: " \o cause]
    /\ UNCHANGED <<reqVars, checkVars, indexVars, searchVars, parserVars, connection,
                   probe, uiVars>>

NextContext ==
    \/ \E hasIndexer \in BOOLEAN : GenerateContextForComments(hasIndexer)
    \/ CollectorReturns
    \/ \E cause \in Causes : CollectorThrows(cause)
    \/ FetchCatch
    \/ \E code \in Codes : ContextPostDone(code)
    \/ \E cause \in Causes : ContextPostFailed(cause)

\* No context assembly and no collector call so far; the store is constructed.
NoContext    == [pc |-> "idle", threw |-> ""]
NoProbe      == [fn |-> "none"]

(***************************************************************************)
(* DEBOUNCE (src/indexers/codeStructureIndex.js:213-221, the same function *)
(* inline at src/unnamed/part_002:1036-1045)                               *)
(***************************************************************************)
\* The delay given to debounce, in clock ticks, and the arguments of a call.
delay == 2
DebounceArgs == {"a", "b"}

\* debounce(fn, delay) has returned the debounced function: `let timer = null`.
\* timer is the id setTimeout returned last (the number of the call that set
\* it, 0 for null), timeouts the ids of the timeouts that are set and have
\* neither run nor been cleared.
NotCalled ==
    [now |-> 0, timer |-> 0, timeouts |-> {}, promises |-> <<>>, invocations |-> <<>>]

\* The debounced function without its clearTimeout
DebouncedCallNoClear(args) ==
    /\ Len(debounced.promises) < MaxBurst
    /\ debounced.now + delay <= MaxTime
    /\ LET id == Len(debounced.promises) + 1
       IN  debounced' =
               [debounced EXCEPT
                   !.timer = id,
                   !.timeouts = @ \cup {id},
                   !.promises = Append(@, [args |-> args, at |-> debounced.now,
                                           state |-> "pending"])]
    /\ UNCHANGED <<reqVars, checkVars, indexVars, searchVars, parserVars, context,
                   connection, probe, codebaseIndexer, command, sidebar>>

\* A call of the debounced function: clearTimeout(timer), then a new promise
\* whose executor sets the timeout that will resolve it.
DebouncedCall(args) ==
    /\ Len(debounced.promises) < MaxBurst
    /\ debounced.now + delay <= MaxTime
    /\ LET id == Len(debounced.promises) + 1
       IN  debounced' =
               [debounced EXCEPT
                   !.timer = id,
                   !.timeouts = (@ \ {debounced.timer}) \cup {id},
                   !.promises = Append(@, [args |-> args, at |-> debounced.now,
                                           state |-> "pending"])]
    /\ UNCHANGED <<reqVars, checkVars, indexVars, searchVars, parserVars, context,
                   connection, probe, codebaseIndexer, command, sidebar>>

\* Time passes.
Tick ==
    /\ debounced.now < MaxTime
    /\ debounced' = [debounced EXCEPT !.now = @ + 1]
    /\ UNCHANGED <<reqVars, checkVars, indexVars, searchVars, parserVars, context,
                   connection, probe, codebaseIndexer, command, sidebar>>

\* The callback of timeout id runs, not before the delay has passed since the
\* timeout was set: () => resolve(fn(...args)).  fn is called with the
\* arguments of that call and the promise is resolved with what fn returns.
TimeoutRuns(id) ==
    /\ id \in debounced.timeouts
    /\ debounced.now >= debounced.promises[id].at + delay
    /\ debounced' =
           [debounced EXCEPT
               !.timeouts = @ \ {id},
               !.promises[id].state = "resolved",
               !.invocations = Append(@, [call |-> id, args |-> debounced.promises[id].args,
                                          at |-> debounced.now])]
    /\ UNCHANGED <<reqVars, checkVars, indexVars, searchVars, parserVars, context,
                   connection, probe, codebaseIndexer, command, sidebar>>

\* The promise fn returned settles, and with it the promise resolved with it.
WrappedSettles(id) ==
    /\ id \in 1..Len(debounced.promises)
    /\ debounced.promises[id].state = "resolved"
    /\ debounced' = [debounced EXCEPT !.promises[id].state = "settled"]
    /\ UNCHANGED <<reqVars, checkVars, indexVars, searchVars, parserVars, context,
                   connection, probe, codebaseIndexer, command, sidebar>>

(***************************************************************************)
(* INDEX PERL CODEBASE COMMAND (src/unnamed/part_004:235-264)              *)
(***************************************************************************)
\* What the command shows at its end.
Indexed      == "Perl codebase indexed successfully"
CreateFailed == "Failed to create codebase indexer"
IndexFailed  == "Failed to index codebase: "

\* No invocation is in progress.  indexer is the local constant of the handler.
\* Observer: created tells that initializeCodebaseIndexer returned true, ran
\* lists the callers whose indexWorkspace call was made in this invocation, and
\* reports holds, for every finished invocation, whether an indexer existed
\* when it began, created, ran and the message shown.
NoCommand ==
    [pc |-> "idle", indexer |-> "null", created |-> FALSE, ran |-> <<>>, reports |-> <<>>]

CommandUnchanged ==
    UNCHANGED <<reqVars, checkVars, indexVars, searchVars, parserVars, context,
                connection, probe, debounced, sidebar>>

\* The end of an invocation: the message is shown and the handler returns.
Show(message, ran) ==
    [NoCommand EXCEPT
        !.reports = Append(command.reports,
                           [existed |-> command.indexer # "null",
                            created |-> command.created, ran |-> ran,
                            message |-> message])]

\* activate: the timer callback runs initializeCodebaseIndexer in a workspace
\* with a folder; `codebaseIndexer = new PerlCodebaseIndexer(...)`.
StartupInitialize ==
    /\ codebaseIndexer = "null"
    /\ codebaseIndexer' = "PerlCodebaseIndexer"
    /\ UNCHANGED command
    /\ CommandUnchanged

\* The command handler up to its first await: `const indexer =
\* getCodebaseIndexer()`; without an indexer initializeCodebaseIndexer is
\* awaited, with one the progress task is started.
IndexCodebase ==
    /\ command.pc = "idle"
    /\ Len(command.reports) < MaxCommands
    /\ command' = [command EXCEPT !.indexer = codebaseIndexer,
                                  !.pc = IF codebaseIndexer = "null" THEN "initialize"
                                         ELSE "progress"]
    /\ UNCHANGED codebaseIndexer
    /\ CommandUnchanged

\* initializeCodebaseIndexer returns false: no workspace folder, or the
\* construction throws.  The handler shows the error and returns.
InitializeReturnsFalse ==
    /\ command.pc = "initialize"
    /\ command' = Show(CreateFailed, command.ran)
    /\ UNCHANGED codebaseIndexer
    /\ CommandUnchanged

\* initializeCodebaseIndexer constructs the indexer and assigns the global;
\* with config.indexOnStartup it runs indexWorkspace on it; it returns true.
\* The handler's constant `indexer` is what it was.
InitializeReturnsTrue(indexOnStartup) ==
    /\ command.pc = "initialize"
    /\ codebaseIndexer' = "PerlCodebaseIndexer"
    /\ command' = [command EXCEPT !.pc = "progress", !.created = TRUE,
                                  !.ran = IF indexOnStartup THEN Append(@, "initialize")
                                          ELSE @]
    /\ CommandUnchanged

\* The task given to withProgress: `indexer.indexWorkspace(...)`.  On null it
\* throws a TypeError, which the catch block shows; on an indexer the call
\* resolves (indexWorkspace catches its own errors) and success is shown.
ProgressTask ==
    /\ command.pc = "progress"
    /\ command' = IF command.indexer = "null"
                  THEN Show(IndexFailed, command.ran)
                  ELSE Show(Indexed, Append(command.ran, "command"))
    /\ UNCHANGED codebaseIndexer
    /\ CommandUnchanged

NextCommand ==
    \/ StartupInitialize
    \/ IndexCodebase
    \/ InitializeReturnsFalse
    \/ \E indexOnStartup \in BOOLEAN : InitializeReturnsTrue(indexOnStartup)
    \/ ProgressTask

(***************************************************************************)
(* ALTERNATIVE SUGGESTIONS SIDEBAR (src/extension.js:433-515)              *)
(***************************************************************************)
\* The texts a selection can hold: "" is the empty selection.
SelectedTexts == {"", " ", "foo", "foo ", "bar"}

\* String.prototype.trim on these texts
trim(text) == CASE text = " " -> "" [] text = "foo " -> "foo" [] OTHER -> text

\* What the backend answers to /altCode/ for a code: one alternative made for
\* that code, or none.
Alternatives(code) == {<<>>, <<[code |-> "alternative to " \o code]>>}

NoSuggestions ==
    "No specific code suggestions received from AI, or response format was unexpected."
NotPerl     == "Error: Only Perl code suggestions are supported."
FetchFailed == "Error fetching suggestions: "

\* The state after activation: lastSelectedText = '', lastSuggestions = [],
\* treeProvider.suggestions = [].  requests holds every /altCode/ request,
\* processed counts the calls of the function, and (observer) latest says what
\* the last call did.
NoSelection ==
    [lastSelectedText |-> "", lastSuggestions |-> <<>>, suggestions |-> <<>>,
     requests |-> <<>>, processed |-> 0, latest |-> "none"]

SidebarUnchanged ==
    UNCHANGED <<reqVars, checkVars, indexVars, searchVars, parserVars, context,
                connection, probe, debounced, codebaseIndexer, command>>

\* AlternativeSuggestionsProvider.refresh(suggestions)
refresh(s, suggestions) == [s EXCEPT !.suggestions = suggestions]

\* processSelectionForSidebar (the function given to debounce) up to its return
\* or to `await api.post('/altCode/', { code: selectedText })`.
processSelectionForSidebar(isPerl, selectedText) ==
    /\ sidebar.processed < MaxSelections
    /\ LET s == [sidebar EXCEPT !.processed = @ + 1]
       IN  sidebar' =
               IF ~isPerl
               THEN [refresh(s, <<NotPerl>>) EXCEPT !.latest = "notPerl"]
               ELSE IF selectedText = ""
               THEN [(IF s.lastSelectedText = "" THEN refresh(s, <<>>) ELSE s)
                        EXCEPT !.latest = "empty"]
               ELSE IF trim(selectedText) = trim(s.lastSelectedText)
                       /\ Len(s.lastSuggestions) > 0
               THEN [refresh(s, s.lastSuggestions) EXCEPT !.latest = "cached"]
               ELSE IF trim(selectedText) # ""
               THEN [s EXCEPT !.latest = "request",
                              !.requests = Append(@, [code |-> selectedText,
                                                      stage |-> "awaiting",
                                                      suggestions |-> <<>>])]
               ELSE [(IF s.lastSelectedText # ""
                      THEN refresh([s EXCEPT !.lastSelectedText = "",
                                             !.lastSuggestions = <<>>], <<>>)
                      ELSE s) EXCEPT !.latest = "cleared"]
    /\ SidebarUnchanged

\* The response of request r arrives: the suggestions are taken from it, cached
\* with the trimmed selection, and shown.
AltCodeResponded(r, alternatives) ==
    /\ r \in 1..Len(sidebar.requests)
    /\ sidebar.requests[r].stage = "awaiting"
    /\ alternatives \in Alternatives(sidebar.requests[r].code)
    /\ LET codes == [i \in 1..Len(alternatives) |-> alternatives[i].code]
           suggestionsForSidebar == IF Len(codes) = 0 THEN <<NoSuggestions>> ELSE codes
       IN  sidebar' =
               refresh([sidebar EXCEPT
                           !.requests[r].stage = "responded",
                           !.requests[r].suggestions = suggestionsForSidebar,
                           !.lastSelectedText = trim(sidebar.requests[r].code),
                           !.lastSuggestions = suggestionsForSidebar],
                       suggestionsForSidebar)
    /\ SidebarUnchanged

\* api.post rejects: the catch block shows one error line; the cache stays.
AltCodeFailed(r) ==
    /\ r \in 1..Len(sidebar.requests)
    /\ sidebar.requests[r].stage = "awaiting"
    /\ sidebar' = refresh([sidebar EXCEPT !.requests[r].stage = "failed"],
                          <<FetchFailed>>)
    /\ SidebarUnchanged

NextSidebar ==
    \/ \E isPerl \in BOOLEAN, selectedText \in SelectedTexts :
           processSelectionForSidebar(isPerl, selectedText)
    \/ \E r \in 1..MaxSelections :
           /\ r <= Len(sidebar.requests)
           /\ \E alternatives \in Alternatives(sidebar.requests[r].code) :
                  AltCodeResponded(r, alternatives)
    \/ \E r \in 1..MaxSelections : AltCodeFailed(r)

NextDebounce ==
    \/ \E args \in DebounceArgs : DebouncedCall(args)
    \/ Tick
    \/ \E id \in 1..MaxBurst : TimeoutRuns(id)
    \/ \E id \in 1..MaxBurst : WrappedSettles(id)
InitLate     ==
    /\ context = NoContext /\ connection = Constructed /\ probe = NoProbe
    /\ debounced = NotCalled
    /\ codebaseIndexer = "null" /\ command = NoCommand
    /\ sidebar = NoSelection

Init         == InitRequests /\ InitErrorCheck /\ InitIndexer /\ InitSearch /\ InitParser /\ InitLate /\ ~snapshots.on
InitObserved == InitRequests /\ InitErrorCheck /\ InitIndexer /\ InitSearch /\ InitParser /\ InitLate /\ snapshots.on

SpecRequests   == Init /\ [][NextRequests]_vars
SpecCollapse   == Init /\ [][NextCollapse]_vars
SpecErrorCheck == Init /\ [][NextErrorCheck]_vars
SpecWatcher    == Init /\ [][NextWatcher]_vars
SpecWorkspace  == Init /\ [][NextWorkspace]_vars
SpecWatcherReliable == Init /\ [][NextWatcherReliable]_vars
SpecSequential == InitObserved /\ [][NextSequential]_vars
SpecStore      == Init /\ [][NextStore]_vars
SpecDeleteLast == Init /\ [][NextDeleteLast]_vars

Next == NextRequests \/ NextCollapse \/ NextErrorCheck \/ NextIndexer \/ NextSearch \/ NextParser
            \/ NextExtractor \/ NextBlock \/ NextAround
            \/ NextSymbol \/ NextImports \/ NextFile
            \/ NextConnection \/ NextContext \/ NextDebounce \/ NextCommand \/ NextSidebar
SpecParser    == Init /\ [][NextParser]_vars
SpecExtractor == Init /\ [][NextExtractor]_vars
SpecBlock     == Init /\ [][NextBlock]_vars
SpecAround    == Init /\ [][NextAround]_vars
SpecSymbol    == Init /\ [][NextSymbol]_vars
SpecImports   == Init /\ [][NextImports]_vars
SpecFile      == Init /\ [][NextFile]_vars
SpecContext   == Init /\ [][NextContext]_vars
SpecConnection == Init /\ [][NextConnection]_vars
SpecDebounce  == Init /\ [][NextDebounce]_vars
SpecCommand   == Init /\ [][NextCommand]_vars
SpecSidebar   == Init /\ [][NextSidebar]_vars

\* The debounced function in a running extension host: time goes on, a timeout
\* that is due runs, and the wrapped function settles what it returned.
SpecDebounceFair ==
    /\ Init /\ [][NextDebounce]_vars
    /\ WF_vars(Tick)
    /\ \A id \in 1..MaxBurst : WF_vars(TimeoutRuns(id)) /\ WF_vars(WrappedSettles(id))
Spec == Init /\ [][Next]_vars

(***************************************************************************)
(* PROPERTIES                                                              *)
(***************************************************************************)
Unsettled == {p \in 1..Len(promises) : ~Settled(p)}

\* C1: single-flight.  While a request for a key has not settled, every call
\* made with that key holds that one promise, and no second request (context
\* assembly, backend call) exists for the key.
SingleFlight ==
    /\ \A p, q \in Unsettled : promises[p].key = promises[q].key => p = q
    /\ \A c, d \in 1..Len(calls) :
           (calls[c].key = calls[d].key /\ calls[c].promise \in Unsettled
                /\ calls[d].promise \in Unsettled)
           => calls[c].promise = calls[d].promise

\* Two calls share one request that is still in flight.
SingleFlightWitness ==
    \E c, d \in 1..Len(calls) :
        /\ c # d
        /\ calls[c].promise = calls[d].promise
        /\ calls[c].promise \in Unsettled

\* C2 (as claimed): a check that was superseded while in flight never publishes.
\* In every step, a check whose controller is aborted does not become published.
StaleCheckNeverPublished ==
    [][\A c \in 1..Len(checks) :
          (checks[c].stage = "awaiting" /\ controllers[checks[c].signal])
          => checks'[c].stage # "published"]_vars

\* C5: the map entry of a key is removed when its request settles, whatever the
\* outcome: the map holds exactly the unsettled requests, it is empty once all
\* have settled, and a call never returns a request that has already settled.
EntryRemovedOnSettle ==
    /\ [](/\ \A k \in DOMAIN inFlightRequests :
               /\ inFlightRequests[k] \in Unsettled
               /\ promises[inFlightRequests[k]].key = k
          /\ \A p \in Unsettled : promises[p].key \in DOMAIN inFlightRequests
          /\ (Unsettled = {} => DOMAIN inFlightRequests = {}))
    /\ [][Len(calls') > Len(calls)
             => promises'[calls'[Len(calls')].promise].stage # "settled"]_vars

\* A request failed (null), its entry is gone, and a later call with the same
\* key runs a fresh request.
EntryRemovedWitness ==
    \E p, q \in 1..Len(promises) :
        /\ p < q
        /\ promises[p].key = promises[q].key
        /\ Settled(p) /\ promises[p].result = "null"
        /\ q \in Unsettled
        /\ \E c \in 1..Len(calls) : calls[c].promise = q

ChecksOf(doc) == {c \in 1..Len(checks) : checks[c].doc = doc}

\* C6 (as claimed): once no check of a document is in flight, the diagnostics
\* shown for it are those of the most recently started check that produced some.
LatestCheckShown ==
    \A doc \in CheckDocs :
        LET published == {c \in ChecksOf(doc) : checks[c].stage = "published"}
        IN  (/\ \A c \in ChecksOf(doc) : checks[c].stage # "awaiting"
             /\ doc \in DOMAIN errorDiagnostics)
            => \A c \in published : c <= errorDiagnostics[doc]

\* C10: exactly one cancellation token is live: the current controller is not
\* aborted and every other controller is.
OneLiveToken ==
    /\ errorCheckAbortController \in 1..Len(controllers)
    /\ \A i \in 1..Len(controllers) :
           controllers[i] <=> (i # errorCheckAbortController)

\* Three checks have been started; the first two were superseded in flight.
OneLiveTokenWitness ==
    /\ Len(checks) = 3
    /\ \A c \in 1..2 : checks[c].stage = "awaiting" /\ controllers[checks[c].signal]

\* C3 (as claimed): no two indexFile calls for the same path are in progress
\* at the same time.
NoConcurrentIndexOfPath ==
    \A i, j \in Slots :
        (i # j /\ Indexing(i) /\ Indexing(j)) => tasks[i].path # tasks[j].path

\* C4 (as claimed): while no operation on a path is in progress, all rows of
\* that path carry one cacheKey.
OneGenerationPerPath ==
    \A f \in PerlPaths :
        (\A i \in Slots : ~(Running(i) /\ tasks[i].path = f))
        => \A m, n \in 1..Len(table) :
               (table[m].path = f /\ table[n].path = f)
               => table[m].cacheKey = table[n].cacheKey

\* C7 (as claimed): once cancellation has been requested, indexWorkspace
\* starts no further indexFile call.
NoIndexFileAfterCancel ==
    [][cancelRequested
         => ~(/\ tasks'[0].kind = "workspace"
              /\ (tasks[0].kind # "workspace"
                     \/ workspace'.processed # workspace.processed))]_vars

\* A row without its cacheKey.
StripCacheKey(row) == [row EXCEPT !.cacheKey = <<>>]
StripCacheKeys(t) == [n \in 1..Len(t) |-> StripCacheKey(t[n])]

\* Two refreshFile runs of one file, one right after the other, that read the
\* same content.
SameFileTwice(n) ==
    /\ n \in 1..(Len(snapshots.seq) - 1)
    /\ snapshots.seq[n].path = snapshots.seq[n + 1].path
    /\ snapshots.seq[n].content = snapshots.seq[n + 1].content

Deleting(i) == tasks[i].kind = "delete" /\ tasks[i].pc = "delete"

\* C9 (as claimed): when the store step of deleteFromIndex(P) is over, no row
\* with path P is left.
DeleteRemovesRows ==
    [][\A i \in 1..MaxEvents :
          (Deleting(i) /\ ~Deleting(i)') => RowsOf(table', tasks[i].path) = <<>>]_vars

\* C9 (amended): the notification removes P's entry from the structure map and
\* no other entry; the store step removes the rows of P when the store's delete
\* succeeds and leaves the table as it is when it throws; the rows of every
\* other path stay, in their order.
DeleteFromIndexEffect ==
    [][\A i \in 1..MaxEvents :
          /\ (~Running(i) /\ tasks'[i].kind = "delete")
             => /\ tasks'[i].path \notin DOMAIN structures'
                /\ \A f \in DOMAIN structures \ {tasks'[i].path} :
                       f \in DOMAIN structures' /\ structures'[f] = structures[f]
                /\ DOMAIN structures' \subseteq DOMAIN structures
                /\ table' = table
          /\ (Deleting(i) /\ tasks'[i].pc = "afterDelete")
             => /\ RowsOf(table', tasks[i].path) = <<>>
                /\ \A f \in Paths \cup {""} :
                       f # tasks[i].path => RowsOf(table', f) = RowsOf(table, f)
                /\ Len(table') = Len(table) - Len(RowsOf(table, tasks[i].path))
                /\ structures' = structures
          /\ (Deleting(i) /\ ~Running(i)')
             => table' = table /\ structures' = structures]_vars

\* A deleteFromIndex call has removed the rows of its path; the rows of the other
\* path are in the table and its entry is in the structure map.
DeleteFromIndexWitness ==
    \E i \in 1..MaxEvents :
        /\ tasks[i].kind = "delete" /\ tasks[i].pc = "afterDelete"
        /\ tasks[i].path = "a.pl"
        /\ RowsOf(table, "a.pl") = <<>>
        /\ RowsOf(table, "lib/b.pm") # <<>>
        /\ DOMAIN structures = {"lib/b.pm"}

\* C11: failure isolation in indexWorkspace.  The files passed to indexFile are
\* files whose read succeeded, each at most once and in discovery order; when the
\* run is over, whatever failed on the way, every file whose read succeeded has
\* been passed to indexFile, and the run ends by returning (there is no rejected
\* outcome: the only final position is "done").
FailureIsolation ==
    LET started == workspace.started
    IN  /\ \A m, n \in 1..Len(started) : started[m] = started[n] => m = n
        /\ Range(started) \subseteq workspace.readOk
        /\ workspace.processed \in {Len(started), Len(started) - 1}
        /\ workspace.pc = "done"
           => /\ Range(started) = workspace.readOk
              /\ workspace.processed = Len(started)
              /\ started = discoverPerlFiles(workspace.readOk)

\* The run is over; the store delete and the insert of the first file failed, and
\* the second file was indexed all the same.
FailureIsolationWitness ==
    /\ workspace.pc = "done"
    /\ workspace.started = <<"a.pl", "lib/b.pm">>
    /\ RowsOf(table, "a.pl") = RowsOf(PreviousSession, "a.pl")
    /\ \E n \in 1..Len(table) :
           table[n].path = "lib/b.pm" /\ table[n].cacheKey # CacheKey("lib/b.pm", -1)

\* C12: no store failure propagates.  No findSimilarCode call ends by a rejected
\* promise; one in which the store or the embedding threw returns the empty
\* list, any other returns at most limit rows, none of them the placeholder.  A
\* store delete that throws leaves the table as it is, and the update or
\* deleteFromIndex call that made it goes on (to its insert) or returns.
StoreFailuresContained ==
    /\ [](\A n \in 1..Len(searches) :
             /\ searches[n].outcome # "rejected"
             /\ searches[n].pc = "done"
                => /\ searches[n].outcome = "resolved"
                   /\ searches[n].failed => searches[n].result = <<>>
                   /\ Len(searches[n].result) <= searches[n].limit
                   /\ \A m \in 1..Len(searches[n].result) :
                          searches[n].result[m].path # "")
    /\ [][\A i \in Slots :
             (/\ tasks[i].pc = "delete" /\ tasks'[i].pc # "delete"
              /\ RowsOf(table, tasks[i].path) # <<>>
              /\ RowsOf(table', tasks[i].path) = RowsOf(table, tasks[i].path))
             => /\ table' = table
                /\ tasks'[i].pc \in {"add", "idle"}]_vars

\* One search returned rows, another failed and returned the empty list, and an
\* update whose delete threw has inserted its records all the same.
StoreFailuresWitness ==
    /\ \E m, n \in 1..Len(searches) :
           /\ searches[m].pc = "done" /\ searches[m].result # <<>>
           /\ searches[n].pc = "done" /\ searches[n].failed
    /\ Len(RowsOf(table, "a.pl")) > Len(RowsOf(PreviousSession, "a.pl"))

(***************************************************************************)
(* PROPERTIES OF THE STRUCTURE EXTRACTOR                                   *)
(***************************************************************************)
Result == extraction.result
FileStructures == {i \in 1..Len(Result) : Result[i].type = "file"}
SubStructures  == {i \in 1..Len(Result) : Result[i].type = "subroutine"}
PackageStructures == SelectSeq(Result, LAMBDA e : e.type = "package")

TreeStrategyOnceInitialized ==
    extraction.called /\ extraction.ready => extraction.strategy = "tree"

\* The package open at position head of a text: the name of the last package
\* declaration before it, or "" when there is none.
OpenPackage(contents, head) ==
    LET before == {k \in 1..(head - 1) : IsPackage(contents[k])}
    IN  IF before = {} THEN ""
        ELSE PackageName(contents[CHOOSE k \in before : \A h \in before : h <= k])

\* C15: every routine structure is named by the package open at its declaration:
\* P::name after the declaration of P and before the next package declaration,
\* name alone before the first declaration or without any, on the tree path and
\* on the pattern path alike.  (Stated for programs that use no block-form
\* package.)
RoutinesNamedByOpenPackage ==
    /\ extraction.called /\ extraction.isProgram
    /\ \A i \in 1..Len(extraction.contents) : extraction.contents[i] # "package P"
    => \A n \in SubStructures :
           LET head == SkipSpace(extraction.contents, Result[n].range.start + 1)
           IN  Result[n].name =
                   QualifiedName(OpenPackage(extraction.contents, head),
                                 SubName(extraction.contents[head]))

\* The package ranges an extraction records: the ranges of its package
\* structures, or the packageRanges of the current pattern path.
RecordedPackageRanges ==
    IF extraction.version = "earlier"
    THEN [i \in 1..Len(PackageStructures) |-> PackageStructures[i].range]
    ELSE IF extraction.strategy = "regex"
    THEN LET ranges == packageRanges(extraction.contents)
         IN  [i \in 1..Len(ranges) |-> [start |-> ranges[i].start, end |-> ranges[i].end]]
    ELSE <<>>

RangesWithinText ==
    extraction.called =>
        \A n \in 1..Len(Result) :
            /\ 0 <= Result[n].range.start
            /\ Result[n].range.start <= Result[n].range.end
            /\ Result[n].range.end <= Len(extraction.contents)

\* A routine with two opening braces and one closing brace: its range is empty.
RangesWithinTextWitness ==
    /\ extraction.called /\ extraction.strategy = "regex"
    /\ extraction.version = "current"
    /\ extraction.contents = <<"sub f", "{", "{", "}">>
    /\ Len(Result) = 2
    /\ Result[1].type = "subroutine" /\ Result[1].range = [start |-> 0, end |-> 0]
    /\ Result[2].type = "file" /\ Result[2].range = [start |-> 0, end |-> 4]

(***************************************************************************)
(* PROPERTIES OF getCurrentBlock                                           *)
(***************************************************************************)
RECURSIVE NodesUnder(_)
NodesUnder(node) ==
    {node} \cup UNION {NodesUnder(node.children[i]) : i \in 1..Len(node.children)}

QueryRoot == RootNode(blockQuery.program)
QueryText == Unparse(blockQuery.program)

\* The position of a type in the priority list.
Rank(type) == CHOOSE k \in 1..Len(Priority) : Priority[k] = type

\* The nodes that have the cursor strictly inside them.
Around ==
    {n \in NodesUnder(QueryRoot) :
        n.startIndex < blockQuery.offset /\ blockQuery.offset < n.endIndex}

\* C18: getCurrentBlock chooses by fixed priority, not proximity: no node with the
\* cursor inside it has a type that comes earlier in the priority list than the
\* type of the node returned, and a cursor inside a routine, whatever bare block,
\* loop or body lies between the routine and the cursor or around the routine,
\* yields the text of the innermost routine around it.
EnclosingBlockByPriority ==
    blockQuery.called /\ blockQuery.ready =>
        LET around == Around
            listed == {n \in around : \E k \in 1..Len(Priority) : Priority[k] = n.type}
            routines == {n \in around : n.type = "function_definition"}
        IN  /\ \A n \in listed :
                   /\ blockQuery.result.kind = "text"
                   /\ Rank(blockQuery.result.type) <= Rank(n.type)
            /\ \A f \in routines :
                   (\A g \in routines : g.startIndex <= f.startIndex)
                   => blockQuery.result = BlockText(QueryText, f)

\* The cursor is in the body of a routine that is nested in a bare block: the
\* routine's text is returned, not the nearer body block, not the bare block.
EnclosingBlockWitness ==
    /\ blockQuery.called /\ blockQuery.ready
    /\ blockQuery.program = <<Statement("bare", "", <<Statement("sub", "g", <<Expr>>)>>)>>
    /\ blockQuery.offset = 5
    /\ {n.type : n \in Around} = {"source_file", "standalone_block", "function_definition", "block"}
    /\ blockQuery.result =
           [kind |-> "text", type |-> "function_definition",
            text |-> <<"sub g", "{", "\n", "x", "\n", "}">>]

\* The comments that hold the cursor, and the node that has a comment as a child.
CommentsAtCursor ==
    {c \in NodesUnder(QueryRoot) :
        /\ c.type = "comment"
        /\ c.startIndex <= blockQuery.offset /\ blockQuery.offset < c.endIndex}
ParentOf(c) ==
    CHOOSE n \in NodesUnder(QueryRoot) : \E i \in 1..Len(n.children) : n.children[i] = c

\* C19: for a cursor inside a comment getCurrentBlock returns what it returns for
\* a cursor located at the comment's immediately enclosing node (an offset in
\* that node where the node itself is the one found); a comment is never the
\* block returned.
CommentYieldsEnclosingNode ==
    blockQuery.called /\ blockQuery.ready =>
        /\ blockQuery.result.type # "comment"
        /\ \A c \in CommentsAtCursor :
               \A o \in 0..Len(QueryText) :
                   LET path == findNodeAtOffset(QueryRoot, o)
                   IN  /\ path # <<>>
                       /\ path[Len(path)] = ParentOf(c)
                       /\ ParentOf(c).startIndex <= o /\ o < ParentOf(c).endIndex
                       => blockQuery.result =
                              getCurrentBlock(PerlParser, QueryRoot, QueryText, o)

\* The cursor is in a comment inside a bare block: the bare block is returned, as
\* for a cursor on the opening brace of the block.
CommentYieldsEnclosingNodeWitness ==
    /\ blockQuery.called /\ blockQuery.ready
    /\ blockQuery.program = <<Statement("bare", "", <<Comment>>)>>
    /\ blockQuery.offset = 3
    /\ CommentsAtCursor # {}
    /\ blockQuery.result = getCurrentBlock(PerlParser, QueryRoot, QueryText, 0)
    /\ blockQuery.result.type = "standalone_block"

\* C20: getCurrentBlock always returns the exact text of an ancestor node or the
\* string "file_scope", also when no parser is available; never null or
\* anything else.
TextOrFileScope ==
    blockQuery.called =>
        \/ blockQuery.result = FileScope
        \/ /\ blockQuery.result.kind = "text"
           /\ \E n \in NodesUnder(QueryRoot) :
                  /\ n.startIndex <= blockQuery.offset /\ blockQuery.offset < n.endIndex
                  /\ blockQuery.result = BlockText(QueryText, n)

(***************************************************************************)
(* PROPERTIES OF THE RELEVANT-CODE SEARCH                                  *)
(***************************************************************************)
\* C22: findRelevantCode (which returns what findSimilarCode returns) never
\* returns a record with an empty path: the placeholder row that _initDb puts
\* into a new table is in no result, whatever the query and the limit.
NoPlaceholderReturned ==
    \A n \in 1..Len(searches) :
        \A m \in 1..Len(searches[n].result) :
            searches[n].result[m].path # Placeholder.path

\* A search with a limit above the number of rows has returned rows while the
\* placeholder row is in the table.
NoPlaceholderReturnedWitness ==
    /\ \E k \in 1..Len(table) : table[k] = Placeholder
    /\ \E n \in 1..Len(searches) :
           /\ searches[n].pc = "done"
           /\ searches[n].result # <<>>
           /\ searches[n].limit > Len(table)

(***************************************************************************)
(* PROPERTIES OF THE WORKSPACE RUN                                         *)
(***************************************************************************)
\* C23: indexWorkspace reports progress once after every indexed file; the k-th
\* report is k divided by the number of files to index, so the reports are
\* strictly increasing, lie in (0, 1], and the last one is 1 when the run is
\* complete.
ProgressReports ==
    LET reports == workspace.reports
        total   == Len(workspace.validFiles)
    IN  /\ Len(reports) = workspace.processed
        /\ \A k \in 1..Len(reports) :
               /\ reports[k][2] > 0
               /\ Same(reports[k], <<k, total>>)
               /\ Less(<<0, 1>>, reports[k])
               /\ ~Less(<<1, 1>>, reports[k])
               /\ k > 1 => Less(reports[k - 1], reports[k])
        /\ (workspace.pc = "done" /\ total > 0)
               => /\ Len(reports) = total
                  /\ Same(reports[Len(reports)], <<1, 1>>)

\* A run over two files is complete: two reports, one half and one.
ProgressReportsWitness ==
    /\ workspace.pc = "done"
    /\ Len(workspace.reports) = 2
    /\ Same(workspace.reports[1], <<1, 2>>)

(***************************************************************************)
(* PROPERTIES OF THE REQUEST KEY                                           *)
(***************************************************************************)
\* C24: two requests are collapsed into one in-flight request only if they
\* agree on every input that affects the result: a call that is handed an
\* existing promise has the key of that promise and reads the same document
\* text as the call that created it.
CollapsedRequestsAgree ==
    \A c \in 1..Len(calls) :
        /\ calls[c].key = promises[calls[c].promise].key
        /\ calls[c].text = promises[calls[c].promise].text

(***************************************************************************)
(* PROPERTIES OF THE CODE AROUND THE CURSOR                                *)
(***************************************************************************)
\* C21: for a position inside the document getCodeAround does not throw; its
\* prefix is made of the lines before the cursor line, at most linesBefore of
\* them and none before line 0, and its suffix runs from the cursor over the
\* rest of the cursor line and at most linesAfter lines after it, none after
\* the last line.
CodeAroundClipped ==
    probe.fn = "getCodeAround" =>
        LET document == probe.document
            L        == probe.position.line
            first    == IF L - probe.linesBefore > 0 THEN L - probe.linesBefore ELSE 0
            last     == IF L + probe.linesAfter < Len(document) - 1
                        THEN L + probe.linesAfter ELSE Len(document) - 1
            before   == SubSeq(document, first + 1, L)
            after    == SubSeq(document, L + 2, last + 1)
            rest     == SubSeq(document[L + 1], probe.position.character + 1,
                               Len(document[L + 1]))
        IN  /\ probe.result.kind = "value"
            /\ Len(before) <= probe.linesBefore /\ Len(after) <= probe.linesAfter
            /\ probe.result.fullPrefix =
                   IF before = <<>> THEN <<>> ELSE FullText(before)
            /\ probe.result.fullSuffix =
                   IF after = <<>> THEN rest ELSE rest \o <<"\n">> \o FullText(after)

\* The cursor is on line 0 of a document of three lines and one line is asked
\* for on either side: the prefix is empty, clipped at the first line, and the
\* suffix ends with line 1.
CodeAroundWitness ==
    /\ probe.fn = "getCodeAround"
    /\ probe.position.line = 0 /\ Len(probe.document) = 3
    /\ probe.linesBefore = 1 /\ probe.linesAfter = 1
    /\ probe.result.fullPrefix = <<>>
    /\ probe.result.fullSuffix = <<"a", "\n", "b", "b">>

(***************************************************************************)
(* PROPERTIES OF THE IMPORT DEFINITIONS                                    *)
(***************************************************************************)
\* C27: findSymbolInFile resolves a symbol to the first line that matches a
\* declaration pattern; when the braces counted from that line forward come
\* back to zero, the text returned is the text from that line to the line
\* where they do, the routine's closing brace, also when that is the same line.
SymbolTextEndsAtClosingBrace ==
    probe.fn = "findSymbolInFile" =>
        LET lines == SplitLines(probe.content)
            Declares(i) == DeclarationMatches(lines[i], probe.symbol)
            Balance(i, j) ==
                LET span == JoinLines(SubSeq(lines, i, j))
                IN  CountOf(span, "{") - CountOf(span, "}")
        IN  \A i \in 1..Len(lines) :
                (Declares(i) /\ \A m \in 1..(i - 1) : ~Declares(m))
                => /\ probe.result.found
                   /\ probe.result.line = i - 1
                   /\ \A j \in i..Len(lines) :
                          (Balance(i, j) = 0 /\ \A m \in i..(j - 1) : Balance(i, m) # 0)
                          => probe.result.content = JoinLines(SubSeq(lines, i, j))

\* C26: resolution misses are recorded: in the result of getImportDefinitions
\* every import whose file was not located has an entry with the empty list,
\* and every valid symbol of every import has an entry keyed import::symbol,
\* empty exactly when the file was not located or the symbol was not found.
MissesRecorded ==
    probe.fn = "getImportDefinitions" =>
        \A k \in 1..Len(probe.imports) :
            LET import  == probe.imports[k]
                content == probe.files[import.name]
            IN  /\ content = Missing
                   => /\ import.name \in DOMAIN probe.result
                      /\ probe.result[import.name] = <<>>
                /\ \A n \in 1..Len(import.symbols) :
                       LET symbol == import.symbols[n]
                           key    == FullName(import.name, symbol)
                       IN  ValidSymbol(symbol)
                           => /\ key \in DOMAIN probe.result
                              /\ probe.result[key] = <<>>
                                 <=> \/ content = Missing
                                     \/ ~findSymbolInFile(content, symbol).found

StoreOpenedOnce ==
    /\ connection.connects <= 1
    /\ connection.opens + connection.creates <= 1
    /\ connection.creates <= 1

(***************************************************************************)
(* PROPERTIES OF THE CONTEXT ASSEMBLY                                      *)
(***************************************************************************)
\* C28: a failure of an advanced collector (project structure, import
\* definitions, related code) does not fail the request:
\* generateContextForComments returns a payload with every basic field, the
\* backend request is sent, and no context error is produced.
AdvancedFailureDegrades ==
    (context.pc # "idle" /\ \E n \in 1..Len(AdvancedSteps) : context.threw = AdvancedSteps[n])
    => /\ context.outcome = "resolved"
       /\ BasicFields \subseteq context.payload
       /\ AdvancedField(context.threw) \notin context.payload
       /\ context.posted
       /\ context.error = ""

\* getImportDefinitions threw: the payload holds the basic fields and the
\* project structure, and the backend has answered with code.
AdvancedFailureWitness ==
    /\ context.pc = "done"
    /\ context.threw = "getImportDefinitions"
    /\ context.payload = BasicFields \cup {"projectStructure"}
    /\ context.result \in Codes

\* C29: a failure of a basic collector fails that request:
\* generateContextForComments rejects with an error whose message names the
\* cause, no backend request is sent, and the catch of
\* fetchCodeWithDeduplication shows the message to the user and returns null.
BasicFailureReported ==
    (context.pc # "idle" /\ \E n \in 1..Len(BasicSteps) : context.threw = BasicSteps[n])
    => /\ context.outcome = "rejected"
       /\ context.error = "Failed to generate context: " \o context.cause
       /\ context.cause \in Causes
       /\ ~context.posted
       /\ context.payload = {}
       /\ context.pc \in {"catch", "done"}
       /\ context.pc = "done"
          => /\ context.result = "null"
             /\ context.shown = "Failed to generate code: Failed to generate context: "
                                    \o context.cause

\* getCurrentBlock threw a TypeError and the user has been shown the message.
BasicFailureWitness ==
    /\ context.pc = "done"
    /\ context.threw = "getCurrentBlock" /\ context.cause = "TypeError"
    /\ context.shown = "Failed to generate code: Failed to generate context: TypeError"

(***************************************************************************)
(* PROPERTIES OF THE SHARED REQUEST                                        *)
(***************************************************************************)
\* C37: when the shared computation of fetchCodeWithDeduplication fails, in the
\* context assembly or in the backend request, every caller that holds the
\* in-flight promise receives null: the promise of a call settles with a code
\* or with null and never with a rejection, and a request that ends without a
\* backend response ends with null.
SharedFailureGivesNull ==
    /\ [](\A c \in 1..Len(calls) :
             Settled(calls[c].promise)
             => promises[calls[c].promise].result \in Codes \cup {"null"})
    /\ [][\A p \in 1..Len(promises) :
             (/\ promises[p].stage = "context"
              /\ promises'[p].stage = "settled")
             => \A c \in 1..Len(calls) :
                    calls[c].promise = p => promises'[calls[c].promise].result = "null"]_vars

\* Two callers share a request that failed: both hold a promise settled with
\* null.
SharedFailureWitness ==
    \E c, d \in 1..Len(calls) :
        /\ c # d
        /\ calls[c].promise = calls[d].promise
        /\ Settled(calls[c].promise)
        /\ promises[calls[c].promise].result = "null"

(***************************************************************************)
(* PROPERTIES OF CLOSED DOCUMENTS                                          *)
(***************************************************************************)
\* C38 (as claimed): after a document has been closed and its diagnostics
\* deleted, nothing is published for it unless it is reopened.  The diagnostics
\* held for a document never come from a check whose document object has been
\* closed, unless a check on a reopened document of that name exists.
ClosedDocumentStaysClean ==
    \A d \in DOMAIN errorDiagnostics :
        checks[errorDiagnostics[d]].isClosed
        => \E c \in ChecksOf(d) : ~checks[c].isClosed

(***************************************************************************)
(* PROPERTIES OF THE ANCESTOR SEARCH                                       *)
(***************************************************************************)
\* The ancestors getCurrentBlock considers for the observed call.
Considered ==
    LET chain == Ancestors(findNodeAtOffset(QueryRoot, blockQuery.offset), blockQuery.offset)
    IN  {chain[n] : n \in 1..Len(chain)}

\* C32 (as claimed): the ancestor search starts from the smallest node with
\* startIndex <= offset < endIndex: every node with the offset in that range,
\* comments aside, is among the ancestors considered, also at an offset where
\* a node starts right at the end of its previous sibling.
ContainingNodesConsidered ==
    blockQuery.called /\ blockQuery.ready =>
        \A n \in NodesUnder(QueryRoot) :
            (/\ n.type # "comment"
             /\ n.startIndex <= blockQuery.offset /\ blockQuery.offset < n.endIndex)
            => n \in Considered

(***************************************************************************)
(* PROPERTIES OF THE UPDATE OF A PATH                                      *)
(***************************************************************************)
\* C34 (as claimed): update inserts the new records of a path only after the
\* old records of that path have been removed, also when its delete step
\* fails: a step that adds rows to the table for the file of an update finds
\* no row of that path in the table.
InsertOnlyAfterRemoval ==
    [][\A i \in Slots :
          (tasks[i].pc = "add" /\ Len(table') > Len(table))
          => RowsOf(table, tasks[i].path) = <<>>]_vars

(***************************************************************************)
(* PROPERTIES OF A DELETED PATH                                            *)
(***************************************************************************)
\* C33 (as claimed): once the delete notification for a.pl has been processed
\* and every operation that was in flight when it arrived has finished, no row
\* with path a.pl is in the vector store and a.pl has no entry in the
\* structure map, also when a refresh of a.pl was in progress at that moment.
DeletedPathGone ==
    (events = MaxEvents /\ \A i \in Slots : ~Running(i))
    => /\ RowsOf(table, "a.pl") = <<>>
       /\ "a.pl" \notin DOMAIN structures

(***************************************************************************)
(* PROPERTIES OF debounce                                                  *)
(***************************************************************************)
\* C35 (as claimed): every promise a debounced function returns eventually
\* settles, also the promise of a call that a later call supersedes within the
\* delay.
DebouncedPromisesSettle ==
    \A id \in 1..MaxBurst :
        (Len(debounced.promises) >= id)
        ~> (Len(debounced.promises) >= id /\ debounced.promises[id].state = "settled")

\* A call that is followed by another call less than the delay later.
Superseded(id) ==
    /\ id < Len(debounced.promises)
    /\ debounced.promises[id + 1].at < debounced.promises[id].at + delay

\* C36: in a burst of calls, each less than the delay after the previous one,
\* the wrapped function is invoked exactly once, with the arguments of the
\* last call and not before the delay has passed since that call.  No call
\* that another follows within the delay is ever invoked; an invocation has the
\* arguments of its call and comes at least the delay after it; no call is
\* invoked twice; and the latest call is in the end invoked, unless a further
\* call has come.
DebounceInvokesLastOfBurst ==
    /\ [](\A v \in 1..Len(debounced.invocations) :
             LET id == debounced.invocations[v].call
             IN  /\ ~Superseded(id)
                 /\ debounced.invocations[v].args = debounced.promises[id].args
                 /\ debounced.invocations[v].at >= debounced.promises[id].at + delay
                 /\ \A w \in 1..Len(debounced.invocations) :
                        debounced.invocations[w].call = id => w = v)
    /\ \A id \in 1..MaxBurst :
           (Len(debounced.promises) = id)
           ~> (\/ Len(debounced.promises) > id
               \/ \E v \in 1..Len(debounced.invocations) :
                      debounced.invocations[v].call = id)

\* A burst of three calls, each within the delay of the one before, has ended:
\* the wrapped function has been invoked once, with the arguments of the third.
DebounceBurstWitness ==
    /\ Len(debounced.promises) = 3
    /\ Superseded(1) /\ Superseded(2)
    /\ debounced.promises[2].at > debounced.promises[1].at
    /\ debounced.promises[3].args # debounced.promises[1].args
    /\ Len(debounced.invocations) = 1
    /\ debounced.invocations[1].call = 3
    /\ debounced.invocations[1].args = debounced.promises[3].args

(***************************************************************************)
(* PROPERTIES OF THE INDEX PERL CODEBASE COMMAND                           *)
(***************************************************************************)
\* C31 (as claimed): an invocation that finds an indexer, or that finds none
\* and creates one, runs indexWorkspace on the indexer from the handler and
\* ends by reporting success.
IndexCodebaseReportsSuccess ==
    \A n \in 1..Len(command.reports) :
        (command.reports[n].existed \/ command.reports[n].created)
        => /\ command.reports[n].message = Indexed
           /\ command.reports[n].ran # <<>>
           /\ command.reports[n].ran[Len(command.reports[n].ran)] = "command"

(***************************************************************************)
(* PROPERTIES OF THE SIDEBAR                                               *)
(***************************************************************************)
\* C39 (as claimed): when alternative-suggestion requests overlap, the sidebar
\* and the cache end up with the suggestions of the most recent selection,
\* whatever the order of the responses.  Once every request has been answered
\* and the last call of the function was the one that made the latest request,
\* treeProvider.suggestions and lastSuggestions are the suggestions of that
\* request and lastSelectedText is its trimmed selection.
SidebarShowsLatestSelection ==
    LET n == Len(sidebar.requests)
    IN  (/\ sidebar.latest = "request"
         /\ \A r \in 1..n : sidebar.requests[r].stage = "responded")
        => /\ sidebar.suggestions = sidebar.requests[n].suggestions
           /\ sidebar.lastSuggestions = sidebar.requests[n].suggestions
           /\ sidebar.lastSelectedText = trim(sidebar.requests[n].code)

====
